---- MODULE Spec2Model ----
(***************************************************************************)
(* Model of the advisor-handoff saga of the admissions agent               *)
(* (AgentCore/tools/advisor_handoff_tool.py) and of the collaborators it   *)
(* drives: the conversation-history reader (session_utils.py), the CRM     *)
(* helpers (salesforce_tool.py) and the notification dispatcher            *)
(* (whatsapp_tool.py).                                                     *)
(*                                                                         *)
(* Python strings that the code inspects character by character (phone     *)
(* numbers) are sequences of one-character strings; the other texts are    *)
(* strings, the formatted history being the sequence of its lines.  Python *)
(* None is the value None for scalars and NonePhone for phone numbers.     *)
(*                                                                         *)
(* Spec is the saga driven by requests.  SpecRepeat calls the tool again   *)
(* for one request, SpecConcurrent runs two requests in one process,       *)
(* SpecDeadline lets the caller's deadline elapse during the saga and      *)
(* SpecSession is the session tracking around the turns.  SpecSanitize,    *)
(* SpecHistory, SpecTask, SpecSend, SpecProcess (one queue record of the   *)
(* WhatsApp sender of lambda/whatsapp-sender) and SpecForm (the handler of *)
(* lambda/form-submission) call one function on its own, on arguments      *)
(* drawn from bounded sets.  SpecSender is the batch loop of the WhatsApp  *)
(* sender with the queue delivering a failed batch again.                  *)
(***************************************************************************)
EXTENDS Integers, Sequences, FiniteSets, TLC

\* ------------------------------------------------------------------ bounds

\* Number of complete_advisor_handoff invocations explored in one behaviour.
MaxInvocations == 1

\* Longest event list the memory store holds for the known session.
MaxEvents == 1

\* Largest number of records of a batch of the sender in SpecSender.
MaxBatch == 2

\* Number of times the queue delivers a batch in SpecSender.
MaxDeliveries == 2

\* Latest tick at which a turn may start in SpecSession.
MaxClock == 4

\* Number of invocations for one request context in SpecRepeat.
MaxRepeats == 2

\* Longest event list the memory store holds when fetch_conversation_history
\* is called on its own, and largest max_turns it is called with.
MaxStoredEvents == 3

MaxTurnsArg == 2

\* Longest string handed to sanitize_phone_for_actor_id on its own.
MaxPhoneLength == 4

\* Longest task description and longest turn text handed to
\* create_task_with_full_history on its own.
MaxTextLength == 40000

\* ------------------------------------------------------------- value domains

None == "None"

NonePhone == <<"None">>

Digits == {"0", "1", "2", "3", "4", "5", "6", "7", "8", "9"}

\* "+1 (555) 123-4567": the formatted number of the lead LeadA
PhoneFormatted ==
    <<"+", "1", " ", "(", "5", "5", "5", ")", " ", "1", "2", "3", "-", "4", "5", "6", "7">>

\* "15559876543": digits only, no leading '+', the number of the lead LeadB
PhonePlain == <<"1", "5", "5", "5", "9", "8", "7", "6", "5", "4", "3">>

\* "+44 20 7946 0000": a well-formed number no lead carries
PhoneUnknown ==
    <<"+", "4", "4", " ", "2", "0", " ", "7", "9", "4", "6", " ", "0", "0", "0", "0">>

\* "+1 55": too short for the dispatcher's length check
PhoneShort == <<"+", "1", " ", "5", "5">>

\* phone_number values a request payload can carry (agent.py:181) ; "" and
\* None are the missing ones
PayloadPhones == {NonePhone, <<>>, PhoneFormatted, PhonePlain, PhoneUnknown, PhoneShort}

PayloadSessions == {"", "s1"}

PayloadMemoryIds == {"", "m1"}

Reasons == {"financial aid"}

StudentNames == {"Alex"}

\* timing_preference values the model passes to the tool: one of the
\* documented vocabulary and one differing from it in case only
TimingPreferences == {"as soon as possible", "2 Hours"}

\* str.lower() on the timing strings of the model
Lower(s) ==
    CASE s = "2 Hours" -> "2 hours"
      [] s = "As Soon As Possible" -> "as soon as possible"
      [] OTHER -> s

EventTypes == {"USER_INPUT", "ASSISTANT_RESPONSE", "TOOL_TRACE"}

Events == [eventType : EventTypes, text : {"hi"}]

RECURSIVE SeqsUpTo(_, _)
SeqsUpTo(S, n) ==
    IF n = 0 THEN {<<>>}
    ELSE LET shorter == SeqsUpTo(S, n - 1)
         IN  shorter \cup {Append(s, x) : s \in {t \in shorter : Len(t) = n - 1}, x \in S}

LeadIds == {"LeadA", "LeadB"}

\* ---------------------------------------------------------------- state

VARIABLES
    handoff_context,  \* module-level _handoff_context dict
    memoryEvents,     \* memory store: events of the known (memory, session, actor)
    leads,            \* CRM: Lead records by Id
    tasks,            \* CRM: Task records, in creation order
    queue,            \* SQS: messages accepted by the queue, in order
    pc,               \* position of the running complete_advisor_handoff call
    loc,              \* its local variables
    calls,            \* collaborator functions it has called so far, in order
    raw,              \* what the external system answered to the latest call
    outcome,          \* the dict it returned
    before,           \* the external systems as the running call found them
    invocations,      \* number of invocations started
    arg,              \* arguments of the helper called on its own (helper specifications)
    result,           \* what that helper returned
    requests,         \* agent.py: the requests in flight and the one whose agent runs
    deadline_elapsed, \* the deadline of the caller of the running request has passed
    sessions,         \* DynamoDB WhatsappSessions table: items by (phone_number, session_id)
    clock,            \* datetime.utcnow(), in ticks
    tracking,         \* DynamoDB message tracking table: items put, in order
    twilio_sent,      \* messages Twilio accepted, in order
    handler           \* whatsapp-sender: the running lambda_handler call and its batch

\* the state of the components around the saga
aside == <<requests, deadline_elapsed, sessions, clock, tracking, twilio_sent, handler>>

vars == <<handoff_context, memoryEvents, leads, tasks, queue, pc, loc, calls, raw,
          outcome, before, invocations, arg, result, aside>>

\* ------------------------------------------------- session_utils.py helpers

IsDigit(c) == c \in Digits

\* phone.startswith('+')
StartsWithPlus(phone) == Len(phone) > 0 /\ phone[1] = "+"

\* the function with phone[1:] taken in both branches
sanitize_phone_for_actor_id_SliceBoth(phone) ==
    IF StartsWithPlus(phone)
    THEN <<"+">> \o SelectSeq(Tail(phone), IsDigit)
    ELSE SelectSeq(SubSeq(phone, 2, Len(phone)), IsDigit)

\* the function with the pattern [^0-9+]
sanitize_phone_for_actor_id_KeepPlus(phone) ==
    LET IsDigitOrPlus(c) == IsDigit(c) \/ c = "+"
    IN  IF StartsWithPlus(phone)
        THEN <<"+">> \o SelectSeq(Tail(phone), IsDigitOrPlus)
        ELSE SelectSeq(phone, IsDigitOrPlus)

sanitize_phone_for_actor_id(phone) ==
    IF StartsWithPlus(phone)
    THEN <<"+">> \o SelectSeq(Tail(phone), IsDigit)
    ELSE SelectSeq(phone, IsDigit)

\* a wrapper's result: the value it returned, or the exception it let through
Returned(v) == [exc |-> FALSE, val |-> v]

Raised == [exc |-> TRUE, val |-> None]

\* ---- memory store (bedrock.get_memory_events), session_utils.py:90-95

\* the one (memoryId, sessionId, actorId) the store has events for
StoreKey == <<"m1", "s1", <<"+", "1", "5", "5", "5", "1", "2", "3", "4", "5", "6", "7">>>>

Take(s, n) == SubSeq(s, 1, IF Len(s) < n THEN Len(s) ELSE n)

\* answers the store can give to one request
MemoryAnswers(memoryId) ==
    IF memoryId \in {None, ""}
    THEN {"ClientError", "Exception"}
    ELSE {"events", "ResourceNotFoundException", "ClientError", "Exception"}

\* the request sent without maxResults: the store returns every event
get_memory_events_NoLimit(memoryId, sessionId, actorId, maxResults, answer) ==
    [kind |-> answer,
     memoryEvents |-> IF answer = "events" /\ <<memoryId, sessionId, actorId>> = StoreKey
                      THEN memoryEvents
                      ELSE <<>>]

\* the store keeps the events of a session in the order they were created
\* and returns the first maxResults of them
get_memory_events(memoryId, sessionId, actorId, maxResults, answer) ==
    [kind |-> answer,
     memoryEvents |-> IF answer = "events" /\ <<memoryId, sessionId, actorId>> = StoreKey
                      THEN Take(memoryEvents, maxResults)
                      ELSE <<>>]

HeaderLine == [prefix |-> "Previous conversation:", text |-> ""]

IsTurn(event) == event.eventType \in {"USER_INPUT", "ASSISTANT_RESPONSE"}

TurnLine(event) ==
    [prefix |-> IF event.eventType = "USER_INPUT" THEN "User: " ELSE "Assistant: ",
     text |-> event.text]

\* the formatted history: the sequence of its lines, <<>> being the empty string
FormatHistory(events) ==
    LET turns == SelectSeq(events, IsTurn)
    IN  <<HeaderLine>> \o [i \in 1..Len(turns) |-> TurnLine(turns[i])]

\* "\n".join(history_lines) (line 116): the history as one string
RECURSIVE HistoryText(_)
HistoryText(history_lines) ==
    CASE history_lines = <<>> -> ""
      [] Len(history_lines) = 1 -> history_lines[1].prefix \o history_lines[1].text
      [] OTHER -> history_lines[1].prefix \o history_lines[1].text \o "\n"
                      \o HistoryText(Tail(history_lines))

fetch_conversation_history_ReraiseOther(session_id, phone_number, memory_id, max_turns, answer) ==
    LET actor_id == sanitize_phone_for_actor_id(phone_number)
        response == get_memory_events(memory_id, session_id, actor_id, max_turns * 2, answer)
    IN  CASE response.kind = "events" ->
               IF response.memoryEvents = <<>>
               THEN Returned(<<>>)
               ELSE Returned(FormatHistory(response.memoryEvents))
          [] response.kind = "ResourceNotFoundException" -> Returned(<<>>)
          [] OTHER -> Raised

fetch_conversation_history(session_id, phone_number, memory_id, max_turns, answer) ==
    LET actor_id == sanitize_phone_for_actor_id(phone_number)
        response == get_memory_events(memory_id, session_id, actor_id, max_turns * 2, answer)
    IN  CASE response.kind = "events" ->
               IF response.memoryEvents = <<>>
               THEN Returned(<<>>)
               ELSE Returned(FormatHistory(response.memoryEvents))
          [] response.kind = "ResourceNotFoundException" -> Returned(<<>>)
          [] response.kind = "ClientError" -> Returned(<<>>)
          [] OTHER -> Returned(<<>>)

\* ---- CRM (simple_salesforce), salesforce_tool.py

\* answers of the CRM to a lead query, a lead update and a task creation;
\* SalesforceAuthenticationFailed is raised by get_salesforce_client,
\* ConnectionError and SalesforceError by the request itself
QueryAnswers == {"results", "SalesforceAuthenticationFailed", "ConnectionError"}

UpdateAnswers == {"204", "200", "SalesforceError"}

CreateAnswers == {"success", "not_success", "SalesforceError"}

\* str.replace(c, '') for every c of chars
Without(s, chars) ==
    LET Keep(c) == c \notin chars
    IN  SelectSeq(s, Keep)

\* SOQL  Phone LIKE '%needle%'
Like(hay, needle) ==
    \E i \in 0..(Len(hay) - Len(needle)) : SubSeq(hay, i + 1, i + Len(needle)) = needle

\* WHERE Phone LIKE '%normalized%' ORDER BY LastModifiedDate DESC LIMIT 1
QueryLeadByPhone(normalized) ==
    LET hits == {id \in LeadIds : Like(leads[id].Phone, normalized)}
    IN  {id \in hits : \A other \in hits : leads[other].LastModified <= leads[id].LastModified}

NoLeadData == [id |-> None, phone |-> <<>>, status |-> None]

LeadData(id) == [id |-> id, phone |-> leads[id].Phone, status |-> leads[id].Status]

search_lead_by_phone_RaiseOnError(phone_number, answer) ==
    LET sanitized_phone == sanitize_phone_for_actor_id(phone_number)
        normalized == Without(sanitized_phone, {"+", "-", " "})
        records == QueryLeadByPhone(normalized)
    IN  IF answer = "results"
        THEN IF records # {}
             THEN LET id == CHOOSE r \in records : TRUE
                  IN  Returned([lead_id |-> id, lead_data |-> LeadData(id)])
             ELSE Returned([lead_id |-> None, lead_data |-> NoLeadData])
        ELSE Raised

search_lead_by_phone(phone_number, answer) ==
    LET sanitized_phone == sanitize_phone_for_actor_id(phone_number)
        normalized == Without(sanitized_phone, {"+", "-", " "})
        records == QueryLeadByPhone(normalized)
    IN  IF answer = "results"
        THEN IF records # {}
             THEN LET id == CHOOSE r \in records : TRUE
                  IN  Returned([lead_id |-> id, lead_data |-> LeadData(id)])
             ELSE Returned([lead_id |-> None, lead_data |-> NoLeadData])
        ELSE Returned([lead_id |-> None, lead_data |-> NoLeadData])

\* LastModifiedDate the CRM stamps on the next write
NextModified ==
    1 + (CHOOSE m \in {leads[id].LastModified : id \in LeadIds} :
            \A id \in LeadIds : leads[id].LastModified <= m)

\* sf.Lead.update(lead_id, {'Status': status}) accepted by the CRM
LeadsAfterUpdate(lead_id, status) ==
    IF lead_id \in LeadIds
    THEN [leads EXCEPT ![lead_id] = [@ EXCEPT !.Status = status, !.LastModified = NextModified]]
    ELSE leads

\* result of the wrapper and the Lead table after it
update_lead_status_Reraise(lead_id, status, answer) ==
    CASE answer = "204" /\ lead_id \in LeadIds ->
           [exc |-> FALSE, val |-> TRUE, leads |-> LeadsAfterUpdate(lead_id, status)]
      [] answer = "200" /\ lead_id \in LeadIds ->
           [exc |-> FALSE, val |-> FALSE, leads |-> leads]
      [] OTHER -> [exc |-> TRUE, val |-> FALSE, leads |-> leads]

update_lead_status(lead_id, status, answer) ==
    CASE answer = "204" /\ lead_id \in LeadIds ->
           [exc |-> FALSE, val |-> TRUE, leads |-> LeadsAfterUpdate(lead_id, status)]
      [] answer = "200" /\ lead_id \in LeadIds ->
           [exc |-> FALSE, val |-> FALSE, leads |-> leads]
      [] OTHER -> [exc |-> FALSE, val |-> FALSE, leads |-> leads]

\* Id the CRM gives the next Task
NextTaskId == "Task" \o ToString(Len(tasks) + 1)

\* length above which full_description is cut (line 343)
MaxDescriptionLength == 30000

TruncationMarker == "\n\n[Transcript truncated]"

TranscriptHeader == "--- Conversation Transcript ---\n"

\* lines 335-340: the task text, then, for a non-empty history, the
\* transcript section
CombinedDescription(task_description, conversation_history) ==
    IF conversation_history # <<>>
    THEN task_description \o "\n\n" \o TranscriptHeader \o HistoryText(conversation_history)
    ELSE task_description \o "\n\n"

\* full_description with the first characters dropped instead of the last
FullDescription_KeepTail(task_description, conversation_history) ==
    LET full_description == CombinedDescription(task_description, conversation_history)
        n == Len(full_description)
    IN  IF n > MaxDescriptionLength
        THEN SubSeq(full_description, n - MaxDescriptionLength + 1, n) \o TruncationMarker
        ELSE full_description

\* full_description cut without the marker
FullDescription_NoMarker(task_description, conversation_history) ==
    LET full_description == CombinedDescription(task_description, conversation_history)
    IN  IF Len(full_description) > MaxDescriptionLength
        THEN SubSeq(full_description, 1, MaxDescriptionLength)
        ELSE full_description

\* lines 335-344: full_description as stored, cut after MaxDescriptionLength
\* characters and marked when it is longer
FullDescription(task_description, conversation_history) ==
    LET full_description == CombinedDescription(task_description, conversation_history)
    IN  IF Len(full_description) > MaxDescriptionLength
        THEN SubSeq(full_description, 1, MaxDescriptionLength) \o TruncationMarker
        ELSE full_description

\* the task fields with the default priority and no type
TaskData_NormalPriority(lead_id, student_name, task_description, conversation_history) ==
    [WhoId |-> lead_id,
     Subject |-> [prefix |-> "Advisor Handoff: ", student_name |-> student_name],
     Description |-> FullDescription(task_description, conversation_history),
     Priority |-> "Normal",
     Status |-> "Not Started",
     Type |-> None]

TaskData(lead_id, student_name, task_description, conversation_history) ==
    [WhoId |-> lead_id,
     Subject |-> [prefix |-> "Advisor Handoff: ", student_name |-> student_name],
     Description |-> FullDescription(task_description, conversation_history),
     Priority |-> "High",
     Status |-> "Not Started",
     Type |-> "Advisor Handoff"]

\* the wrapper with a lookup before the creation: an existing handoff task
\* of the lead is returned instead of a new one
create_task_with_full_history_Dedup(lead_id, student_name, task_description, conversation_history, answer) ==
    LET task_data == TaskData(lead_id, student_name, task_description, conversation_history)
        existing == {i \in 1..Len(tasks) : tasks[i].WhoId = lead_id}
    IN  CASE answer = "success" /\ existing # {} ->
               [exc |-> FALSE, val |-> tasks[CHOOSE i \in existing : TRUE].Id, tasks |-> tasks]
          [] answer = "success" /\ existing = {} ->
               [exc |-> FALSE, val |-> NextTaskId,
                tasks |-> Append(tasks, [Id |-> NextTaskId] @@ task_data)]
          [] answer = "not_success" -> [exc |-> FALSE, val |-> None, tasks |-> tasks]
          [] OTHER -> [exc |-> FALSE, val |-> None, tasks |-> tasks]

\* result of the wrapper and the Task table after it
create_task_with_full_history(lead_id, student_name, task_description, conversation_history, answer) ==
    LET task_data == TaskData(lead_id, student_name, task_description, conversation_history)
    IN  CASE answer = "success" ->
               [exc |-> FALSE, val |-> NextTaskId,
                tasks |-> Append(tasks, [Id |-> NextTaskId] @@ task_data)]
          [] answer = "not_success" -> [exc |-> FALSE, val |-> None, tasks |-> tasks]
          [] OTHER -> [exc |-> FALSE, val |-> None, tasks |-> tasks]

\* ---- notification dispatcher, whatsapp_tool.py

\* ceiling of the queue's DelaySeconds
SqsMaxDelay == 900

Min(a, b) == IF a < b THEN a ELSE b

\* the table without its "tomorrow morning" entry
calculate_delay_seconds_NoTomorrow(timing_preference) ==
    LET t == Lower(timing_preference)
    IN  CASE t = "as soon as possible" -> 0
          [] t = "2 hours" -> SqsMaxDelay
          [] t = "4 hours" -> SqsMaxDelay
          [] OTHER -> 0

calculate_delay_seconds(timing_preference) ==
    LET t == Lower(timing_preference)
    IN  CASE t = "as soon as possible" -> 0
          [] t = "2 hours" -> SqsMaxDelay
          [] t = "4 hours" -> SqsMaxDelay
          [] t = "tomorrow morning" -> SqsMaxDelay
          [] OTHER -> 0

\* answers of the queue to one send_message: accepted, the queue URL is not
\* configured (KeyError), or the queue rejects the request (ClientError)
SendAnswers == {"MessageId", "KeyError", "ClientError"}

NextMessageId == "msg" \o ToString(Len(queue) + 1)

\* result of the tool and the queue after it; the queue rejects a
\* DelaySeconds above its ceiling with a ClientError
send_whatsapp_message(phone_number, message, timing_preference, student_name, answer) ==
    LET phone == IF StartsWithPlus(phone_number) THEN phone_number ELSE <<"+">> \o phone_number
        message_body == [phone_number |-> phone,
                         message |-> message,
                         timing_preference |-> timing_preference,
                         student_name |-> student_name,
                         eum_msg_id |-> NextMessageId]
        delay_seconds == calculate_delay_seconds(timing_preference)
        sent == [MessageBody |-> message_body,
                 DelaySeconds |-> Min(delay_seconds, SqsMaxDelay),
                 Priority |-> IF timing_preference = "as soon as possible"
                              THEN "high" ELSE "normal",
                 TimingPreference |-> timing_preference]
    IN  CASE Len(phone) < 10 ->
               [exc |-> FALSE, val |-> [status |-> "error", message_id |-> None],
                queue |-> queue]
          [] Len(phone) >= 10 /\ answer = "MessageId"
                /\ sent.DelaySeconds \in 0..SqsMaxDelay ->
               [exc |-> FALSE, val |-> [status |-> "success", message_id |-> NextMessageId],
                queue |-> Append(queue, sent)]
          [] OTHER ->
               [exc |-> FALSE, val |-> [status |-> "error", message_id |-> None],
                queue |-> queue]

\* ---- outcome dicts of complete_advisor_handoff, advisor_handoff_tool.py

NoHandoffData == [lead_id |-> None, task_id |-> None, timing_preference |-> None,
                  student_name |-> None]

NoOutcome == [status |-> None,
              text |-> [phrase |-> None, phone_number |-> <<>>, task_id |-> None,
                        timing_text |-> None, reason |-> None, statements |-> {}],
              handoff_data |-> NoHandoffData]

\* an error dict: one of the fixed phrases, the not-found one with the phone
ErrorOutcome(phrase, phone_number) ==
    [status |-> "error",
     text |-> [phrase |-> phrase, phone_number |-> phone_number, task_id |-> None,
               timing_text |-> None, reason |-> None, statements |-> {}],
     handoff_data |-> NoHandoffData]

TimingText(timing_preference) ==
    LET t == Lower(timing_preference)
    IN  CASE t = "as soon as possible" -> "shortly"
          [] t = "2 hours" -> "in approximately 2 hours"
          [] t = "4 hours" -> "in approximately 4 hours"
          [] t = "tomorrow morning" -> "tomorrow morning"
          [] OTHER -> "soon"

\* heading of the confirmation text (line 181)
PhraseDone == "Handoff to Human Advisor Complete"

\* what the confirmation text tells the student under "What happens next"
\* and "Your application status" (lines 185-191)
ConfirmationStatements ==
    {"conversation saved", "task assigned", "whatsapp confirmation", "advisor will contact",
     "status working"}

\* the success dict built after the notification step; status_updated and
\* whatsapp_result are in scope there
SuccessOutcome(lead_id, task_id, timing_preference, student_name, reason, status_updated, whatsapp_result) ==
    [status |-> "success",
     text |-> [phrase |-> PhraseDone, phone_number |-> <<>>,
               task_id |-> task_id, timing_text |-> TimingText(timing_preference),
               reason |-> reason, statements |-> ConfirmationStatements],
     handoff_data |-> [lead_id |-> lead_id, task_id |-> task_id,
                       timing_preference |-> timing_preference,
                       student_name |-> student_name]]

\* the fixed phrases of the error dicts (lines 88, 118, 151, 213)
PhraseNoContext == "I encountered an issue initiating the handoff."

PhraseNoLead == "I couldn't find your application in our system."

PhraseTaskFailed == "I had trouble creating the handoff task."

PhraseCatchAll == "I encountered an issue completing the handoff."

\* ---- the saga, advisor_handoff_tool.py:77-215

\* max_turns the saga asks the history reader for
HandoffMaxTurns == 10

NoLocals == [phone_number |-> NonePhone, session_id |-> None, memory_id |-> None,
             reason |-> None, student_name |-> None, timing_preference |-> None,
             conversation_history |-> <<>>, lead_id |-> None, status_updated |-> FALSE,
             task_id |-> None, whatsapp_result |-> [status |-> None, message_id |-> None]]

NoAnswer == "-"

\* no helper is called on its own
NoArgs == <<>>

NoResult == <<>>

\* no request is in flight
NoRequests == [stage |-> <<>>, running |-> None]

\* no lambda_handler call of the sender has started
NoHandler ==
    [pc |-> "idle", deliveries |-> 0, successful |-> 0, failed |-> 0, failures |-> <<>>,
     attempts |-> <<>>, log |-> <<>>]

\* the components around the saga before anything happened
AsideAtRest ==
    /\ requests = NoRequests
    /\ deadline_elapsed = FALSE
    /\ sessions = <<>>
    /\ clock = 0
    /\ tracking = <<>>
    /\ twilio_sent = <<>>
    /\ handler = NoHandler

\* Python truthiness of the context values
IsFalsyPhone(phone_number) == phone_number \in {NonePhone, <<>>}

IsFalsy(value) == value \in {None, ""}

Idle == pc \in {"idle", "returned"}

\* except Exception (lines 208-215): the catch-all error dict
CatchAll ==
    /\ outcome' = ErrorOutcome(PhraseCatchAll, <<>>)
    /\ pc' = "returned"

\* the Lead table the model starts from: two leads, the numbers stored in
\* E.164 form, LeadB modified last
InitialLeads ==
    [id \in LeadIds |->
        IF id = "LeadA"
        THEN [Phone |-> <<"+", "1", "5", "5", "5", "1", "2", "3", "4", "5", "6", "7">>,
              Status |-> "New", LastModified |-> 1]
        ELSE [Phone |-> <<"+", "1", "5", "5", "5", "9", "8", "7", "6", "5", "4", "3">>,
              Status |-> "New", LastModified |-> 2]]

External == [leads |-> leads, tasks |-> tasks, queue |-> queue]

Init ==
    /\ handoff_context = [phone_number |-> NonePhone, session_id |-> None, memory_id |-> None]
    /\ memoryEvents \in SeqsUpTo(Events, MaxEvents)
    /\ leads = InitialLeads
    /\ tasks = <<>>
    /\ queue = <<>>
    /\ pc = "idle"
    /\ loc = NoLocals
    /\ calls = <<>>
    /\ raw = NoAnswer
    /\ outcome = NoOutcome
    /\ before = [leads |-> InitialLeads, tasks |-> <<>>, queue |-> <<>>]
    /\ invocations = 0
    /\ arg = NoArgs
    /\ result = NoResult
    /\ AsideAtRest

\* agent.py:198 sets the module-level context before the agent runs its tools
\* (a new request: the frame and the result of the previous call are gone)
set_context(phone_number, session_id, memory_id) ==
    /\ Idle
    /\ handoff_context' = [phone_number |-> phone_number, session_id |-> session_id,
                           memory_id |-> memory_id]
    /\ pc' = "idle"
    /\ loc' = NoLocals
    /\ calls' = <<>>
    /\ raw' = NoAnswer
    /\ outcome' = NoOutcome
    /\ before' = External
    /\ UNCHANGED <<memoryEvents, leads, tasks, queue, invocations, arg, result, aside>>

\* the entry with the context test of line 83 weakened to "both missing"
complete_advisor_handoff_BothMissing(reason, student_name, timing_preference) ==
    /\ Idle
    /\ invocations' = invocations + 1
    /\ calls' = <<>>
    /\ raw' = NoAnswer
    /\ before' = External
    /\ loc' = [NoLocals EXCEPT !.phone_number = handoff_context.phone_number,
                               !.session_id = handoff_context.session_id,
                               !.memory_id = handoff_context.memory_id,
                               !.reason = reason,
                               !.student_name = student_name,
                               !.timing_preference = timing_preference]
    /\ IF IsFalsyPhone(handoff_context.phone_number) /\ IsFalsy(handoff_context.session_id)
       THEN /\ outcome' = ErrorOutcome(PhraseNoContext, <<>>)
            /\ pc' = "returned"
       ELSE /\ outcome' = NoOutcome
            /\ pc' = "fetch_history"
    /\ UNCHANGED <<handoff_context, memoryEvents, leads, tasks, queue, arg, result, aside>>

\* lines 77-92: entry, context lookup and the missing-context return
complete_advisor_handoff(reason, student_name, timing_preference) ==
    /\ Idle
    /\ invocations' = invocations + 1
    /\ calls' = <<>>
    /\ raw' = NoAnswer
    /\ before' = External
    /\ loc' = [NoLocals EXCEPT !.phone_number = handoff_context.phone_number,
                               !.session_id = handoff_context.session_id,
                               !.memory_id = handoff_context.memory_id,
                               !.reason = reason,
                               !.student_name = student_name,
                               !.timing_preference = timing_preference]
    /\ IF IsFalsyPhone(handoff_context.phone_number) \/ IsFalsy(handoff_context.session_id)
       THEN /\ outcome' = ErrorOutcome(PhraseNoContext, <<>>)
            /\ pc' = "returned"
       ELSE /\ outcome' = NoOutcome
            /\ pc' = "fetch_history"
    /\ UNCHANGED <<handoff_context, memoryEvents, leads, tasks, queue, arg, result, aside>>

\* lines 94-105, Step 1: retrieve the conversation history
Step1_FetchHistory(answer) ==
    /\ pc = "fetch_history"
    /\ answer \in MemoryAnswers(loc.memory_id)
    /\ calls' = Append(calls, "fetch_conversation_history")
    /\ raw' = answer
    /\ LET r == fetch_conversation_history(loc.session_id, loc.phone_number, loc.memory_id,
                                           HandoffMaxTurns, answer)
       IN  IF r.exc
           THEN CatchAll /\ UNCHANGED loc
           ELSE /\ loc' = [loc EXCEPT !.conversation_history = r.val]
                /\ pc' = "search_lead"
                /\ UNCHANGED outcome
    /\ UNCHANGED <<handoff_context, memoryEvents, leads, tasks, queue, before, invocations,
                   arg, result, aside>>

\* Step 2 without the return at lines 113-120
Step2_SearchLead_NoReturn(answer) ==
    /\ pc = "search_lead"
    /\ answer \in QueryAnswers
    /\ calls' = Append(calls, "search_lead_by_phone")
    /\ raw' = answer
    /\ LET r == search_lead_by_phone(loc.phone_number, answer)
       IN  IF r.exc
           THEN CatchAll /\ UNCHANGED loc
           ELSE /\ loc' = [loc EXCEPT !.lead_id = r.val.lead_id]
                /\ pc' = "update_status"
                /\ UNCHANGED outcome
    /\ UNCHANGED <<handoff_context, memoryEvents, leads, tasks, queue, before, invocations,
                   arg, result, aside>>

\* Step 2 with the CRM's answer put into the text of the not-found dict
Step2_SearchLead_LeakDetail(answer) ==
    /\ pc = "search_lead"
    /\ answer \in QueryAnswers
    /\ calls' = Append(calls, "search_lead_by_phone")
    /\ raw' = answer
    /\ LET r == search_lead_by_phone(loc.phone_number, answer)
       IN  IF r.exc
           THEN CatchAll /\ UNCHANGED loc
           ELSE /\ loc' = [loc EXCEPT !.lead_id = r.val.lead_id]
                /\ IF IsFalsy(r.val.lead_id)
                   THEN /\ outcome' = [ErrorOutcome(PhraseNoLead, loc.phone_number)
                                          EXCEPT !.text.reason = answer]
                        /\ pc' = "returned"
                   ELSE /\ pc' = "update_status"
                        /\ UNCHANGED outcome
    /\ UNCHANGED <<handoff_context, memoryEvents, leads, tasks, queue, before, invocations,
                   arg, result, aside>>

\* lines 107-122, Step 2: search the CRM for the lead, return if there is none
Step2_SearchLead(answer) ==
    /\ pc = "search_lead"
    /\ answer \in QueryAnswers
    /\ calls' = Append(calls, "search_lead_by_phone")
    /\ raw' = answer
    /\ LET r == search_lead_by_phone(loc.phone_number, answer)
       IN  IF r.exc
           THEN CatchAll /\ UNCHANGED loc
           ELSE /\ loc' = [loc EXCEPT !.lead_id = r.val.lead_id]
                /\ IF IsFalsy(r.val.lead_id)
                   THEN /\ outcome' = ErrorOutcome(PhraseNoLead, loc.phone_number)
                        /\ pc' = "returned"
                   ELSE /\ pc' = "update_status"
                        /\ UNCHANGED outcome
    /\ UNCHANGED <<handoff_context, memoryEvents, leads, tasks, queue, before, invocations,
                   arg, result, aside>>

\* Step 3 followed by the notification instead of the task creation
Step3_UpdateStatus_ThenNotify(answer) ==
    /\ pc = "update_status"
    /\ answer \in UpdateAnswers
    /\ calls' = Append(calls, "update_lead_status")
    /\ raw' = answer
    /\ LET r == update_lead_status(loc.lead_id, "Working - Connected", answer)
       IN  /\ leads' = r.leads
           /\ IF r.exc
              THEN CatchAll /\ UNCHANGED loc
              ELSE /\ loc' = [loc EXCEPT !.status_updated = r.val]
                   /\ pc' = "queue_whatsapp"
                   /\ UNCHANGED outcome
    /\ UNCHANGED <<handoff_context, memoryEvents, tasks, queue, before, invocations, arg, result,
                   aside>>

\* lines 124-131, Step 3: update the lead status, a failure is logged only
Step3_UpdateStatus(answer) ==
    /\ pc = "update_status"
    /\ answer \in UpdateAnswers
    /\ calls' = Append(calls, "update_lead_status")
    /\ raw' = answer
    /\ LET r == update_lead_status(loc.lead_id, "Working - Connected", answer)
       IN  /\ leads' = r.leads
           /\ IF r.exc
              THEN CatchAll /\ UNCHANGED loc
              ELSE /\ loc' = [loc EXCEPT !.status_updated = r.val]
                   /\ pc' = "create_task"
                   /\ UNCHANGED outcome
    /\ UNCHANGED <<handoff_context, memoryEvents, tasks, queue, before, invocations, arg, result,
                   aside>>

\* task_description built at line 137
TaskDescription(reason, timing_preference) ==
    "Student requested advisor handoff.\n\nReason: " \o reason
        \o "\n\nTiming Preference: " \o timing_preference

\* Step 4 without the return at lines 146-153
Step4_CreateTask_NoReturn(answer) ==
    /\ pc = "create_task"
    /\ answer \in CreateAnswers
    /\ calls' = Append(calls, "create_task_with_full_history")
    /\ raw' = answer
    /\ LET r == create_task_with_full_history(
                    loc.lead_id, loc.student_name,
                    TaskDescription(loc.reason, loc.timing_preference),
                    loc.conversation_history, answer)
       IN  /\ tasks' = r.tasks
           /\ IF r.exc
              THEN CatchAll /\ UNCHANGED loc
              ELSE /\ loc' = [loc EXCEPT !.task_id = r.val]
                   /\ pc' = "queue_whatsapp"
                   /\ UNCHANGED outcome
    /\ UNCHANGED <<handoff_context, memoryEvents, leads, queue, before, invocations, arg, result,
                   aside>>

\* Step 4 with a compensation: a failed creation puts the lead back as the
\* invocation found it
Step4_CreateTask_RevertStatus(answer) ==
    /\ pc = "create_task"
    /\ answer \in CreateAnswers
    /\ calls' = Append(calls, "create_task_with_full_history")
    /\ raw' = answer
    /\ LET r == create_task_with_full_history(
                    loc.lead_id, loc.student_name,
                    TaskDescription(loc.reason, loc.timing_preference),
                    loc.conversation_history, answer)
       IN  /\ tasks' = r.tasks
           /\ IF r.exc
              THEN CatchAll /\ UNCHANGED <<loc, leads>>
              ELSE /\ loc' = [loc EXCEPT !.task_id = r.val]
                   /\ IF IsFalsy(r.val)
                      THEN /\ outcome' = ErrorOutcome(PhraseTaskFailed, <<>>)
                           /\ pc' = "returned"
                           /\ leads' = before.leads
                      ELSE /\ pc' = "queue_whatsapp"
                           /\ UNCHANGED <<outcome, leads>>
    /\ UNCHANGED <<handoff_context, memoryEvents, queue, before, invocations, arg, result, aside>>

\* Step 4 with one more attempt after a failed creation
Step4_CreateTask_RetryOnce(answer) ==
    /\ pc = "create_task"
    /\ answer \in CreateAnswers
    /\ calls' = Append(calls, "create_task_with_full_history")
    /\ raw' = answer
    /\ LET r == create_task_with_full_history(
                    loc.lead_id, loc.student_name,
                    TaskDescription(loc.reason, loc.timing_preference),
                    loc.conversation_history, answer)
       IN  /\ tasks' = r.tasks
           /\ IF r.exc
              THEN CatchAll /\ UNCHANGED loc
              ELSE /\ loc' = [loc EXCEPT !.task_id = r.val]
                   /\ IF IsFalsy(r.val)
                      THEN IF calls[Len(calls)] = "create_task_with_full_history"
                           THEN /\ outcome' = ErrorOutcome(PhraseTaskFailed, <<>>)
                                /\ pc' = "returned"
                           ELSE /\ pc' = "create_task"
                                /\ UNCHANGED outcome
                      ELSE /\ pc' = "queue_whatsapp"
                           /\ UNCHANGED outcome
    /\ UNCHANGED <<handoff_context, memoryEvents, leads, queue, before, invocations, arg, result,
                   aside>>

\* lines 133-155, Step 4: create the task, return if it was not created
Step4_CreateTask(answer) ==
    /\ pc = "create_task"
    /\ answer \in CreateAnswers
    /\ calls' = Append(calls, "create_task_with_full_history")
    /\ raw' = answer
    /\ LET r == create_task_with_full_history(
                    loc.lead_id, loc.student_name,
                    TaskDescription(loc.reason, loc.timing_preference),
                    loc.conversation_history, answer)
       IN  /\ tasks' = r.tasks
           /\ IF r.exc
              THEN CatchAll /\ UNCHANGED loc
              ELSE /\ loc' = [loc EXCEPT !.task_id = r.val]
                   /\ IF IsFalsy(r.val)
                      THEN /\ outcome' = ErrorOutcome(PhraseTaskFailed, <<>>)
                           /\ pc' = "returned"
                      ELSE /\ pc' = "queue_whatsapp"
                           /\ UNCHANGED outcome
    /\ UNCHANGED <<handoff_context, memoryEvents, leads, queue, before, invocations, arg, result,
                   aside>>

\* the agent calls the tool, at most MaxInvocations times in a behaviour
ToolCall(reason, student_name, timing_preference) ==
    /\ invocations < MaxInvocations
    /\ complete_advisor_handoff(reason, student_name, timing_preference)

\* whatsapp_message built at line 161
WhatsAppMessage(student_name, timing_preference, reason) ==
    [greeting |-> "Hello", student_name |-> student_name,
     timing_preference |-> timing_preference, reason |-> reason]

\* lines 157-206, Step 5: queue the WhatsApp message, then build and return
\* the confirmation
Step5_QueueWhatsApp(answer) ==
    /\ pc = "queue_whatsapp"
    /\ answer \in SendAnswers
    /\ calls' = Append(calls, "send_whatsapp_message")
    /\ raw' = answer
    /\ LET r == send_whatsapp_message(
                    loc.phone_number,
                    WhatsAppMessage(loc.student_name, loc.timing_preference, loc.reason),
                    loc.timing_preference, loc.student_name, answer)
       IN  /\ queue' = r.queue
           /\ IF r.exc
              THEN CatchAll /\ UNCHANGED loc
              ELSE /\ loc' = [loc EXCEPT !.whatsapp_result = r.val]
                   /\ outcome' = SuccessOutcome(loc.lead_id, loc.task_id,
                                                loc.timing_preference, loc.student_name,
                                                loc.reason, loc.status_updated, r.val)
                   /\ pc' = "returned"
    /\ UNCHANGED <<handoff_context, memoryEvents, leads, tasks, before, invocations, arg, result,
                   aside>>

Next ==
    \/ \E p \in PayloadPhones, s \in PayloadSessions, m \in PayloadMemoryIds :
          set_context(p, s, m)
    \/ \E r \in Reasons, n \in StudentNames, t \in TimingPreferences : ToolCall(r, n, t)
    \/ \E a \in MemoryAnswers("m1") : Step1_FetchHistory(a)
    \/ \E a \in QueryAnswers : Step2_SearchLead(a)
    \/ \E a \in UpdateAnswers : Step3_UpdateStatus(a)
    \/ \E a \in CreateAnswers : Step4_CreateTask(a)
    \/ \E a \in SendAnswers : Step5_QueueWhatsApp(a)

Spec == Init /\ [][Next]_vars

\* ------------------------------------- the tool called again for one request

\* the context of a request whose phone number is LeadA's
RepeatInit ==
    /\ handoff_context = [phone_number |-> PhoneFormatted, session_id |-> "s1",
                          memory_id |-> "m1"]
    /\ memoryEvents \in SeqsUpTo(Events, MaxEvents)
    /\ leads = InitialLeads
    /\ tasks = <<>>
    /\ queue = <<>>
    /\ pc = "idle"
    /\ loc = NoLocals
    /\ calls = <<>>
    /\ raw = NoAnswer
    /\ outcome = NoOutcome
    /\ before = [leads |-> InitialLeads, tasks |-> <<>>, queue |-> <<>>]
    /\ invocations = 0
    /\ arg = NoArgs
    /\ result = NoResult
    /\ AsideAtRest

\* the agent calls the tool again with the context unchanged
ToolCallAgain(reason, student_name, timing_preference) ==
    /\ invocations < MaxRepeats
    /\ complete_advisor_handoff(reason, student_name, timing_preference)

\* the CRM answers the lead query and creates the task every time
RepeatNext ==
    \/ \E r \in Reasons, n \in StudentNames, t \in TimingPreferences : ToolCallAgain(r, n, t)
    \/ \E a \in MemoryAnswers("m1") : Step1_FetchHistory(a)
    \/ \E a \in {"results"} : Step2_SearchLead(a)
    \/ \E a \in UpdateAnswers : Step3_UpdateStatus(a)
    \/ \E a \in {"success"} : Step4_CreateTask(a)
    \/ \E a \in SendAnswers : Step5_QueueWhatsApp(a)

SpecRepeat == RepeatInit /\ [][RepeatNext]_vars

\* ------------------------------ the deadline of the request envelope

\* the one tool call of the request
Deadline_ToolCall(reason, student_name, timing_preference) ==
    /\ invocations = 0
    /\ complete_advisor_handoff(reason, student_name, timing_preference)

\* the deadline of the caller elapses while the tool runs; the tool has no
\* deadline parameter and no step of it reads a clock
DeadlineElapses ==
    /\ ~Idle
    /\ ~deadline_elapsed
    /\ deadline_elapsed' = TRUE
    /\ UNCHANGED <<handoff_context, memoryEvents, leads, tasks, queue, pc, loc, calls, raw,
                   outcome, before, invocations, arg, result, requests, sessions, clock,
                   tracking, twilio_sent, handler>>

DeadlineNext ==
    \/ \E r \in Reasons, n \in StudentNames, t \in TimingPreferences :
          Deadline_ToolCall(r, n, t)
    \/ DeadlineElapses
    \/ \E a \in MemoryAnswers("m1") : Step1_FetchHistory(a)
    \/ \E a \in QueryAnswers : Step2_SearchLead(a)
    \/ \E a \in UpdateAnswers : Step3_UpdateStatus(a)
    \/ \E a \in CreateAnswers : Step4_CreateTask(a)
    \/ \E a \in SendAnswers : Step5_QueueWhatsApp(a)

SpecDeadline == RepeatInit /\ [][DeadlineNext]_vars

\* ------------------------------------------- two requests in one process

RequestIds == {"A", "B"}

\* the payloads of the two requests: different phone numbers and sessions
Payload(req) ==
    IF req = "A"
    THEN [phone_number |-> PhoneFormatted, session_id |-> "s1", memory_id |-> "m1"]
    ELSE [phone_number |-> PhonePlain, session_id |-> "s2", memory_id |-> "m1"]

ConcurrentInit ==
    /\ handoff_context = [phone_number |-> NonePhone, session_id |-> None, memory_id |-> None]
    /\ memoryEvents \in SeqsUpTo(Events, MaxEvents)
    /\ leads = InitialLeads
    /\ tasks = <<>>
    /\ queue = <<>>
    /\ pc = "idle"
    /\ loc = NoLocals
    /\ calls = <<>>
    /\ raw = NoAnswer
    /\ outcome = NoOutcome
    /\ before = [leads |-> InitialLeads, tasks |-> <<>>, queue |-> <<>>]
    /\ invocations = 0
    /\ arg = NoArgs
    /\ result = NoResult
    /\ requests = [stage |-> [req \in RequestIds |-> "received"], running |-> None]
    /\ deadline_elapsed = FALSE
    /\ sessions = <<>>
    /\ clock = 0
    /\ tracking = <<>>
    /\ twilio_sent = <<>>
    /\ handler = NoHandler

\* agent.py:199 for one request: set_context overwrites the module-level
\* dict (advisor_handoff_tool.py:34-36), whatever the other request is doing
Request_set_context(req) ==
    /\ requests.stage[req] = "received"
    /\ handoff_context' = Payload(req)
    /\ requests' = [requests EXCEPT !.stage[req] = "context_set"]
    /\ UNCHANGED <<memoryEvents, leads, tasks, queue, pc, loc, calls, raw, outcome, before,
                   invocations, arg, result, deadline_elapsed, sessions, clock, tracking,
                   twilio_sent, handler>>

\* agent.py:237 for one request: its agent starts running; the model follows
\* the tool call of one agent at a time
Request_agent(req) ==
    /\ requests.stage[req] = "context_set"
    /\ requests.running = None
    /\ requests' = [requests EXCEPT !.stage[req] = "agent", !.running = req]
    /\ UNCHANGED <<handoff_context, memoryEvents, leads, tasks, queue, pc, loc, calls, raw,
                   outcome, before, invocations, arg, result, deadline_elapsed, sessions,
                   clock, tracking, twilio_sent, handler>>

\* the running agent calls the tool, once
Request_ToolCall(reason, student_name, timing_preference) ==
    /\ requests.running # None
    /\ pc = "idle"
    /\ ToolCall(reason, student_name, timing_preference)

\* agent.py:237-249 for one request: its agent is done and the response is
\* returned; the frame of its tool call is gone
Request_return(req) ==
    /\ requests.running = req
    /\ Idle
    /\ requests' = [requests EXCEPT !.stage[req] = "done", !.running = None]
    /\ pc' = "idle"
    /\ loc' = NoLocals
    /\ calls' = <<>>
    /\ raw' = NoAnswer
    /\ outcome' = NoOutcome
    /\ before' = External
    /\ UNCHANGED <<handoff_context, memoryEvents, leads, tasks, queue, invocations, arg,
                   result, deadline_elapsed, sessions, clock, tracking, twilio_sent, handler>>

ConcurrentNext ==
    \/ \E req \in RequestIds : Request_set_context(req)
    \/ \E req \in RequestIds : Request_agent(req)
    \/ \E r \in Reasons, n \in StudentNames, t \in TimingPreferences :
          Request_ToolCall(r, n, t)
    \/ \E req \in RequestIds : Request_return(req)
    \/ \E a \in MemoryAnswers("m1") : Step1_FetchHistory(a)
    \/ \E a \in QueryAnswers : Step2_SearchLead(a)
    \/ \E a \in UpdateAnswers : Step3_UpdateStatus(a)
    \/ \E a \in CreateAnswers : Step4_CreateTask(a)
    \/ \E a \in SendAnswers : Step5_QueueWhatsApp(a)

SpecConcurrent == ConcurrentInit /\ [][ConcurrentNext]_vars

\* --------------------------------------------- the helpers called on their own

\* the state a helper is called in: no request is being handled, the store
\* holds no event, the CRM holds the two leads and no task, the queue is empty
HelperInit ==
    /\ handoff_context = [phone_number |-> NonePhone, session_id |-> None, memory_id |-> None]
    /\ leads = InitialLeads
    /\ tasks = <<>>
    /\ queue = <<>>
    /\ pc = "idle"
    /\ loc = NoLocals
    /\ calls = <<>>
    /\ raw = NoAnswer
    /\ outcome = NoOutcome
    /\ before = [leads |-> InitialLeads, tasks |-> <<>>, queue |-> <<>>]
    /\ invocations = 0
    /\ result = NoResult
    /\ AsideAtRest

\* ---- sanitize_phone_for_actor_id, session_utils.py:21-48

\* characters of the strings it is called on: the plus sign, two digits, a
\* separator and a letter
PhoneChars == {"+", "1", "7", "-", "a"}

SanitizeInit ==
    /\ HelperInit
    /\ memoryEvents = <<>>
    /\ arg \in SeqsUpTo(PhoneChars, MaxPhoneLength)

\* one call of sanitize_phone_for_actor_id: on the argument, then on what
\* the call before returned
Sanitize ==
    /\ Len(result) < 2
    /\ LET phone == IF result = NoResult THEN arg ELSE result[Len(result)]
       IN  result' = Append(result, sanitize_phone_for_actor_id(phone))
    /\ UNCHANGED <<handoff_context, memoryEvents, leads, tasks, queue, pc, loc, calls, raw,
                   outcome, before, invocations, arg, aside>>

SanitizeNext == Sanitize

SpecSanitize == SanitizeInit /\ [][SanitizeNext]_vars

\* ---- fetch_conversation_history, session_utils.py:51-129

\* text of the event created i-th in the session
EventText(i) == "turn " \o ToString(i)

\* event lists of the store: any types, the texts telling the events apart
StoredEventLists ==
    {[i \in 1..Len(types) |-> [eventType |-> types[i], text |-> EventText(i)]] :
        types \in SeqsUpTo(EventTypes, MaxStoredEvents)}

HistoryInit ==
    /\ HelperInit
    /\ memoryEvents \in StoredEventLists
    /\ arg \in [session_id : {"s1", "s2"}, phone_number : {PhoneFormatted},
                 memory_id : {"m1"}, max_turns : 1..MaxTurnsArg]

\* one call of fetch_conversation_history
FetchHistory(answer) ==
    /\ result = NoResult
    /\ answer \in MemoryAnswers(arg.memory_id)
    /\ raw' = answer
    /\ result' = <<fetch_conversation_history(arg.session_id, arg.phone_number,
                                              arg.memory_id, arg.max_turns, answer)>>
    /\ UNCHANGED <<handoff_context, memoryEvents, leads, tasks, queue, pc, loc, calls,
                   outcome, before, invocations, arg, aside>>

HistoryNext == \E a \in MemoryAnswers("m1") : FetchHistory(a)

SpecHistory == HistoryInit /\ [][HistoryNext]_vars

\* ---- send_whatsapp_message, whatsapp_tool.py:46-155

\* timing_preference strings: the four of the table, two of them in another
\* case, one the table does not hold and the empty string
TimingStrings ==
    {"as soon as possible", "2 hours", "4 hours", "tomorrow morning",
     "As Soon As Possible", "2 Hours", "next week", ""}

SendInit ==
    /\ HelperInit
    /\ memoryEvents = <<>>
    /\ arg \in [phone_number : {PhoneFormatted, PhonePlain, PhoneUnknown, PhoneShort},
                 message : {"Hello"},
                 timing_preference : TimingStrings,
                 student_name : StudentNames]

\* one call of send_whatsapp_message
SendWhatsApp(answer) ==
    /\ result = NoResult
    /\ answer \in SendAnswers
    /\ raw' = answer
    /\ LET r == send_whatsapp_message(arg.phone_number, arg.message, arg.timing_preference,
                                      arg.student_name, answer)
       IN  /\ queue' = r.queue
           /\ result' = <<[exc |-> r.exc, val |-> r.val]>>
    /\ UNCHANGED <<handoff_context, memoryEvents, leads, tasks, pc, loc, calls, outcome,
                   before, invocations, arg, aside>>

SendNext == \E a \in SendAnswers : SendWhatsApp(a)

SpecSend == SendInit /\ [][SendNext]_vars

\* ---- create_task_with_full_history, salesforce_tool.py:312-365

\* a text of n characters c
RECURSIVE Filler(_, _)
Filler(c, n) ==
    IF n = 0 THEN ""
    ELSE IF n % 2 = 1 THEN c \o Filler(c, n - 1)
    ELSE LET half == Filler(c, n \div 2) IN half \o half

\* lengths of task_description: empty, short, the two around the cut for a
\* task without history, and the longest
DescriptionLengths ==
    {0, 500, MaxDescriptionLength - 2, MaxDescriptionLength - 1, MaxTextLength}

\* lengths of the turn text of a one-turn history: empty, short, the two
\* around the cut for a task_description of 500 characters, and the longest
TurnTextLengths ==
    {0, 1, MaxDescriptionLength - 563, MaxDescriptionLength - 562, MaxTextLength}

\* conversation_history values: the empty string and one-turn histories as
\* fetch_conversation_history formats them
LongHistories ==
    {<<>>} \cup {FormatHistory(<<[eventType |-> "USER_INPUT", text |-> Filler("t", n)]>>) :
                    n \in TurnTextLengths}

TaskInit ==
    /\ HelperInit
    /\ memoryEvents = <<>>
    /\ arg \in [lead_id : LeadIds, student_name : StudentNames,
                 task_description : {Filler("d", n) : n \in DescriptionLengths},
                 conversation_history : LongHistories]

\* one call of create_task_with_full_history
CreateTask(answer) ==
    /\ result = NoResult
    /\ answer \in CreateAnswers
    /\ raw' = answer
    /\ LET r == create_task_with_full_history(arg.lead_id, arg.student_name,
                                              arg.task_description,
                                              arg.conversation_history, answer)
       IN  /\ tasks' = r.tasks
           /\ result' = <<[exc |-> r.exc, val |-> r.val]>>
    /\ UNCHANGED <<handoff_context, memoryEvents, leads, queue, pc, loc, calls, outcome,
                   before, invocations, arg, aside>>

TaskNext == \E a \in CreateAnswers : CreateTask(a)

SpecTask == TaskInit /\ [][TaskNext]_vars

\* ------------------------------------ session tracking around the turns

\* answers of DynamoDB to put_item and update_item
TableAnswers == {"ok", "ClientError"}

\* payloads of the turns: one identity in two formats, two sessions
TurnPayloads ==
    [phone_number : {PhoneFormatted, <<"+", "1", "5", "5", "5", "1", "2", "3", "4", "5", "6", "7">>},
     session_id : {"s1", "s2"}, student_name : {"Alex", ""}, memory_id : {"m1"}]

\* table.put_item(Item=item): the item replaces the one with its key
PutItem(table, key, item) ==
    [k \in DOMAIN table \cup {key} |-> IF k = key THEN item ELSE table[k]]

\* session_utils.py:159-189: the item written at now, or the table as it
\* was when DynamoDB fails (the function returns False)
track_user_session(phone_number, session_id, student_name, additional_data, now, answer) ==
    LET sanitized_phone == sanitize_phone_for_actor_id(phone_number)
        item == [phone_number |-> sanitized_phone,
                 session_id |-> session_id,
                 start_time |-> now,
                 last_activity |-> now,
                 student_name |-> IF student_name = "" THEN "Unknown" ELSE student_name,
                 status |-> "active",
                 memory_id |-> additional_data.memory_id]
    IN  IF answer = "ok"
        THEN PutItem(sessions, <<sanitized_phone, session_id>>, item)
        ELSE sessions

\* session_utils.py:206-228: SET last_activity on the item with the key;
\* update_item creates the item, with the key and last_activity only, when
\* the table has none (start_time 0 and None stand for the missing
\* attributes)
update_session_activity(phone_number, session_id, now, answer) ==
    LET sanitized_phone == sanitize_phone_for_actor_id(phone_number)
        key == <<sanitized_phone, session_id>>
        bare == [phone_number |-> sanitized_phone, session_id |-> session_id,
                 start_time |-> 0, last_activity |-> now, student_name |-> None,
                 status |-> None, memory_id |-> None]
    IN  CASE answer = "ok" /\ key \in DOMAIN sessions ->
               PutItem(sessions, key, [sessions[key] EXCEPT !.last_activity = now])
          [] answer = "ok" /\ key \notin DOMAIN sessions -> PutItem(sessions, key, bare)
          [] OTHER -> sessions

SessionInit ==
    /\ HelperInit
    /\ memoryEvents = <<>>
    /\ arg = NoArgs

\* agent.py:178-196: a turn starts, the session is tracked
Turn_track_user_session(payload, answer) ==
    /\ arg = NoArgs
    /\ clock < MaxClock
    /\ answer \in TableAnswers
    /\ arg' = <<payload>>
    /\ clock' = clock + 1
    /\ sessions' = track_user_session(payload.phone_number, payload.session_id,
                                      payload.student_name,
                                      [memory_id |-> payload.memory_id], clock + 1, answer)
    /\ UNCHANGED <<handoff_context, memoryEvents, leads, tasks, queue, pc, loc, calls, raw,
                   outcome, before, invocations, result, requests, deadline_elapsed,
                   tracking, twilio_sent, handler>>

\* agent.py:244: the agent answered, the activity of the session is updated
Turn_update_session_activity(answer) ==
    /\ arg # NoArgs
    /\ answer \in TableAnswers
    /\ arg' = NoArgs
    /\ clock' = clock + 1
    /\ sessions' = update_session_activity(arg[1].phone_number, arg[1].session_id,
                                           clock + 1, answer)
    /\ UNCHANGED <<handoff_context, memoryEvents, leads, tasks, queue, pc, loc, calls, raw,
                   outcome, before, invocations, result, requests, deadline_elapsed,
                   tracking, twilio_sent, handler>>

SessionNext ==
    \/ \E payload \in TurnPayloads, a \in TableAnswers : Turn_track_user_session(payload, a)
    \/ \E a \in TableAnswers : Turn_update_session_activity(a)

SpecSession == SessionInit /\ [][SessionNext]_vars

\* ------------------------- lambda/whatsapp-sender/send_whatsapp_twilio.py

\* answers of Twilio to messages.create: the status of the new message, or
\* an exception
TwilioAnswers == {"queued", "TwilioRestException"}

\* the body of a queue record that is not JSON
InvalidBody ==
    [json |-> FALSE, phone_number |-> None, message |-> None, eum_msg_id |-> None,
     timing_preference |-> None, student_name |-> None]

\* the bodies of the queue records: JSON objects, a field None when the
\* object has no such key, and the body that is not JSON
MessageBodies ==
    [json : {TRUE}, phone_number : {"+15551234567", "+15559876543"}, message : {"Test"},
     eum_msg_id : {"msg1", None}, timing_preference : {"2 hours", None},
     student_name : {"Alex", None}]
    \cup {InvalidBody}

\* message_body.get(key, default)
Get(value, default) == IF value = None THEN default ELSE value

\* the SID Twilio gives to the next message
NextSid ==
    <<"SM1", "SM2", "SM3", "SM4", "SM5", "SM6", "SM7", "SM8", "SM9", "SM10", "SM11",
      "SM12">>[Len(twilio_sent) + 1]

\* lines 63-112: the Item of the one put_item call, and the table after it;
\* an exception of put_item is logged and swallowed
log_message_status(eum_msg_id, phone_number, message_text, twilio_message_id, status, timing_preference, student_name, error_message, table_answer) ==
    LET Item == [eum_msg_id |-> eum_msg_id,
                 phone_number |-> phone_number,
                 message_text |-> message_text,
                 twilio_message_id |-> twilio_message_id,
                 status |-> status,
                 timing_preference |-> timing_preference,
                 student_name |-> student_name,
                 error_message |-> error_message]
    IN  [put_item |-> <<Item>>,
         tracking |-> IF table_answer = "ok" THEN Append(tracking, Item) ELSE tracking]

\* the handler that logs the failure and returns False instead of raising
process_sqs_message_ReturnFalse(message, twilio_answer, table_answer) ==
    LET message_body == message.body
        logged == log_message_status(Get(message_body.eum_msg_id, "unknown"),
                                     Get(message_body.phone_number, "unknown"),
                                     Get(message_body.message, ""), "N/A", "failed",
                                     Get(message_body.timing_preference, ""),
                                     Get(message_body.student_name, ""),
                                     twilio_answer, table_answer)
    IN  [raised |-> None, val |-> FALSE, twilio_sent |-> twilio_sent,
         put_item |-> logged.put_item, tracking |-> logged.tracking]

\* the handler that looks the eum_msg_id up in the tracking table first and
\* does not send a message the table has as sent
process_sqs_message_Dedup(message, twilio_answer, table_answer) ==
    LET message_body == message.body
        failed(e) ==
            LET logged == log_message_status(Get(message_body.eum_msg_id, "unknown"),
                                             Get(message_body.phone_number, "unknown"),
                                             Get(message_body.message, ""), "N/A", "failed",
                                             Get(message_body.timing_preference, ""),
                                             Get(message_body.student_name, ""),
                                             e, table_answer)
            IN  [raised |-> e, val |-> None, twilio_sent |-> twilio_sent,
                 put_item |-> logged.put_item, tracking |-> logged.tracking]
        already_sent ==
            \E i \in 1..Len(tracking) :
                /\ tracking[i].eum_msg_id = message_body.eum_msg_id
                /\ tracking[i].status = "queued"
    IN  CASE ~message_body.json ->
               [raised |-> None, val |-> FALSE, twilio_sent |-> twilio_sent,
                put_item |-> <<>>, tracking |-> tracking]
          [] message_body.json
                /\ None \in {message_body.phone_number, message_body.message,
                              message_body.eum_msg_id} ->
               failed("KeyError")
          [] message_body.json
                /\ None \notin {message_body.phone_number, message_body.message,
                                 message_body.eum_msg_id}
                /\ already_sent ->
               [raised |-> None, val |-> TRUE, twilio_sent |-> twilio_sent,
                put_item |-> <<>>, tracking |-> tracking]
          [] message_body.json
                /\ None \notin {message_body.phone_number, message_body.message,
                                 message_body.eum_msg_id}
                /\ ~already_sent
                /\ twilio_answer = "queued" ->
               LET logged == log_message_status(message_body.eum_msg_id,
                                                message_body.phone_number,
                                                message_body.message, NextSid, "queued",
                                                Get(message_body.timing_preference, ""),
                                                Get(message_body.student_name, ""),
                                                "", table_answer)
               IN  [raised |-> None, val |-> TRUE,
                    twilio_sent |-> Append(twilio_sent,
                                           [to |-> message_body.phone_number,
                                            body |-> message_body.message]),
                    put_item |-> logged.put_item, tracking |-> logged.tracking]
          [] OTHER -> failed(twilio_answer)

\* the handler without the JSONDecodeError branch: a body that is not JSON
\* is handled as any other error, logged and raised
process_sqs_message_NoJsonBranch(message, twilio_answer, table_answer) ==
    LET message_body == message.body
        failed(e) ==
            LET logged == log_message_status(Get(message_body.eum_msg_id, "unknown"),
                                             Get(message_body.phone_number, "unknown"),
                                             Get(message_body.message, ""), "N/A", "failed",
                                             Get(message_body.timing_preference, ""),
                                             Get(message_body.student_name, ""),
                                             e, table_answer)
            IN  [raised |-> e, val |-> None, twilio_sent |-> twilio_sent,
                 put_item |-> logged.put_item, tracking |-> logged.tracking]
    IN  CASE ~message_body.json -> failed("JSONDecodeError")
          [] message_body.json
                /\ None \in {message_body.phone_number, message_body.message,
                              message_body.eum_msg_id} ->
               failed("KeyError")
          [] message_body.json
                /\ None \notin {message_body.phone_number, message_body.message,
                                 message_body.eum_msg_id}
                /\ twilio_answer = "queued" ->
               LET logged == log_message_status(message_body.eum_msg_id,
                                                message_body.phone_number,
                                                message_body.message, NextSid, "queued",
                                                Get(message_body.timing_preference, ""),
                                                Get(message_body.student_name, ""),
                                                "", table_answer)
               IN  [raised |-> None, val |-> TRUE,
                    twilio_sent |-> Append(twilio_sent,
                                           [to |-> message_body.phone_number,
                                            body |-> message_body.message]),
                    put_item |-> logged.put_item, tracking |-> logged.tracking]
          [] OTHER -> failed(twilio_answer)

\* lines 115-203: what the call raises (None when it returns), what it
\* returns, the messages Twilio accepted, the put_item calls made and the
\* tracking table after it
process_sqs_message(message, twilio_answer, table_answer) ==
    LET message_body == message.body
        failed(e) ==
            LET logged == log_message_status(Get(message_body.eum_msg_id, "unknown"),
                                             Get(message_body.phone_number, "unknown"),
                                             Get(message_body.message, ""), "N/A", "failed",
                                             Get(message_body.timing_preference, ""),
                                             Get(message_body.student_name, ""),
                                             e, table_answer)
            IN  [raised |-> e, val |-> None, twilio_sent |-> twilio_sent,
                 put_item |-> logged.put_item, tracking |-> logged.tracking]
    IN  CASE ~message_body.json ->
               \* JSONDecodeError; the second json.loads raises again, no log
               [raised |-> None, val |-> FALSE, twilio_sent |-> twilio_sent,
                put_item |-> <<>>, tracking |-> tracking]
          [] message_body.json
                /\ None \in {message_body.phone_number, message_body.message,
                              message_body.eum_msg_id} ->
               failed("KeyError")
          [] message_body.json
                /\ None \notin {message_body.phone_number, message_body.message,
                                 message_body.eum_msg_id}
                /\ twilio_answer = "queued" ->
               LET logged == log_message_status(message_body.eum_msg_id,
                                                message_body.phone_number,
                                                message_body.message, NextSid, "queued",
                                                Get(message_body.timing_preference, ""),
                                                Get(message_body.student_name, ""),
                                                "", table_answer)
               IN  [raised |-> None, val |-> TRUE,
                    twilio_sent |-> Append(twilio_sent,
                                           [to |-> message_body.phone_number,
                                            body |-> message_body.message]),
                    put_item |-> logged.put_item, tracking |-> logged.tracking]
          [] OTHER -> failed(twilio_answer)

ProcessInit ==
    /\ HelperInit
    /\ memoryEvents = <<>>
    /\ arg \in [message : [body : MessageBodies], twilio_answer : TwilioAnswers,
                 table_answer : TableAnswers]

\* one queue record is processed
ProcessSqsMessage ==
    /\ result = NoResult
    /\ LET r == process_sqs_message(arg.message, arg.twilio_answer, arg.table_answer)
       IN  /\ result' = <<[raised |-> r.raised, val |-> r.val, put_item |-> r.put_item]>>
           /\ twilio_sent' = r.twilio_sent
           /\ tracking' = r.tracking
    /\ UNCHANGED <<handoff_context, memoryEvents, leads, tasks, queue, pc, loc, calls, raw,
                   outcome, before, invocations, arg, requests, deadline_elapsed, sessions,
                   clock, handler>>

ProcessNext == ProcessSqsMessage

SpecProcess == ProcessInit /\ [][ProcessNext]_vars

\* ---- lambda_handler of the sender, with the queue delivering the batch

\* answers of the environment to the set-up of the Twilio client and of the
\* table (lines 217-237)
SetupAnswers == {"ok", "KeyError"}

\* the i-th record of a batch: a well-formed body with its own phone number
\* and eum_msg_id, or a body that is not JSON
BatchRecord(i, json) ==
    [messageId |-> <<"msg-1", "msg-2", "msg-3">>[i],
     body |-> IF json
              THEN [json |-> TRUE,
                    phone_number |-> <<"+15551111111", "+15552222222", "+15553333333">>[i],
                    message |-> "Test",
                    eum_msg_id |-> <<"uuid-1", "uuid-2", "uuid-3">>[i],
                    timing_preference |-> None, student_name |-> None]
              ELSE InvalidBody]

\* event['Records'] of the SQS events
Batches ==
    UNION {{[i \in 1..n |-> BatchRecord(i, shape[i])] : shape \in [1..n -> BOOLEAN]} :
           n \in 1..MaxBatch}

SenderInit ==
    /\ HelperInit
    /\ memoryEvents = <<>>
    /\ arg \in [Records : Batches]

\* lines 206-242: the queue delivers the batch, for the first time or again
\* after the handler raised; the handler sets up its clients and counters
lambda_handler(setup_answer) ==
    /\ handler.pc \in {"idle", "raised"}
    /\ handler.deliveries < MaxDeliveries
    /\ setup_answer \in SetupAnswers
    /\ handler' = [pc |-> IF setup_answer = "ok" THEN "loop" ELSE "raised",
                   deliveries |-> handler.deliveries + 1,
                   successful |-> 0, failed |-> 0, failures |-> <<>>, attempts |-> <<>>,
                   log |-> handler.log]
    /\ result' = NoResult
    /\ UNCHANGED <<handoff_context, memoryEvents, leads, tasks, queue, pc, loc, calls, raw,
                   outcome, before, invocations, arg, requests, deadline_elapsed, sessions,
                   clock, tracking, twilio_sent>>

\* the loop body that leaves the loop at the first record that fails
lambda_handler_Record_StopAtFailure(twilio_answer, table_answer) ==
    /\ handler.pc = "loop"
    /\ Len(handler.attempts) < Len(arg.Records)
    /\ LET record == arg.Records[Len(handler.attempts) + 1]
           r == process_sqs_message(record, twilio_answer, table_answer)
           success == r.raised = None /\ r.val
       IN  /\ twilio_sent' = r.twilio_sent
           /\ tracking' = r.tracking
           /\ handler' =
                 IF success
                 THEN [handler EXCEPT !.successful = @ + 1,
                                      !.attempts = Append(@, [messageId |-> record.messageId,
                                                              success |-> TRUE]),
                                      !.log = Append(@, [messageId |-> record.messageId,
                                                         success |-> TRUE])]
                 ELSE [handler EXCEPT !.pc = "raised",
                                      !.failed = @ + 1,
                                      !.failures = Append(@, record.messageId),
                                      !.attempts = Append(@, [messageId |-> record.messageId,
                                                              success |-> FALSE]),
                                      !.log = Append(@, [messageId |-> record.messageId,
                                                         success |-> FALSE])]
    /\ UNCHANGED <<handoff_context, memoryEvents, leads, tasks, queue, pc, loc, calls, raw,
                   outcome, before, invocations, arg, result, requests, deadline_elapsed,
                   sessions, clock>>

\* lines 244-264: one pass of the loop, on the next record of the batch
lambda_handler_Record(twilio_answer, table_answer) ==
    /\ handler.pc = "loop"
    /\ Len(handler.attempts) < Len(arg.Records)
    /\ LET record == arg.Records[Len(handler.attempts) + 1]
           r == process_sqs_message(record, twilio_answer, table_answer)
           success == r.raised = None /\ r.val
       IN  /\ twilio_sent' = r.twilio_sent
           /\ tracking' = r.tracking
           /\ handler' =
                 IF success
                 THEN [handler EXCEPT !.successful = @ + 1,
                                      !.attempts = Append(@, [messageId |-> record.messageId,
                                                              success |-> TRUE]),
                                      !.log = Append(@, [messageId |-> record.messageId,
                                                         success |-> TRUE])]
                 ELSE [handler EXCEPT !.failed = @ + 1,
                                      !.failures = Append(@, record.messageId),
                                      !.attempts = Append(@, [messageId |-> record.messageId,
                                                              success |-> FALSE]),
                                      !.log = Append(@, [messageId |-> record.messageId,
                                                         success |-> FALSE])]
    /\ UNCHANGED <<handoff_context, memoryEvents, leads, tasks, queue, pc, loc, calls, raw,
                   outcome, before, invocations, arg, result, requests, deadline_elapsed,
                   sessions, clock>>

\* lines 266-277: after the loop the handler raises when a record failed
\* and returns the 200 response otherwise
lambda_handler_End ==
    /\ handler.pc = "loop"
    /\ Len(handler.attempts) = Len(arg.Records)
    /\ IF handler.failed > 0
       THEN /\ handler' = [handler EXCEPT !.pc = "raised"]
            /\ UNCHANGED result
       ELSE /\ handler' = [handler EXCEPT !.pc = "returned"]
            /\ result' = <<[statusCode |-> 200,
                            body |-> [processed |-> handler.successful,
                                      failed |-> handler.failed]]>>
    /\ UNCHANGED <<handoff_context, memoryEvents, leads, tasks, queue, pc, loc, calls, raw,
                   outcome, before, invocations, arg, requests, deadline_elapsed, sessions,
                   clock, tracking, twilio_sent>>

SenderNext ==
    \/ \E a \in SetupAnswers : lambda_handler(a)
    \/ \E a \in TwilioAnswers, t \in TableAnswers : lambda_handler_Record(a, t)
    \/ lambda_handler_End

SpecSender == SenderInit /\ [][SenderNext]_vars

\* ------------------------------- lambda/form-submission/form_submission.py

\* JSON values of the form fields: a string, a number (text is what str()
\* gives), null, or no such key
Str(text) == [type |-> "str", text |-> text]

Num(text) == [type |-> "int", text |-> text]

Null == [type |-> "null", text |-> ""]

Absent == [type |-> "absent", text |-> ""]

\* fewest digits of a phone number the intake form accepts
MinPhoneDigits == 10

required_fields ==
    <<"firstName", "lastName", "email", "cellPhone", "headquarters", "programType">>

NoFields ==
    [firstName |-> Absent, lastName |-> Absent, email |-> Absent, cellPhone |-> Absent,
     headquarters |-> Absent, programType |-> Absent, homePhone |-> Absent]

\* the JSON objects a form can post
FormObjects ==
    [firstName : {Str("John"), Str(""), Str("  "), Absent},
     lastName : {Str("Doe"), Null},
     email : {Str("john@example.com"), Str("johnexample.com"), Str("john@example"),
              Num("12345")},
     cellPhone : {Str("+1 (555) 123-4567"), Str("555-1234"), Str(" "), Num("5551234")},
     headquarters : {Str("Manila"), Absent},
     programType : {Str("Graduate"), Str("")},
     homePhone : {Absent, Str("5550000000")}]

\* event['body']: a JSON object, text that is not JSON, a JSON array, null,
\* or an event with no body key
FormEvents ==
    [body : [kind : {"object"}, fields : FormObjects]
            \cup [kind : {"text", "array", "null", "absent"}, fields : {NoFields}]]

\* answers of Salesforce to the connection and Lead.create: the lead is
\* created, or one of the two fails, or a credential is not configured
SalesforceAnswers ==
    {"created", "SalesforceAuthenticationFailed", "SalesforceMalformedRequest", "KeyError"}

HasChar(text, c) == \E i \in 1..Len(text) : SubSeq(text, i, i) = c

\* str.strip() leaves nothing
IsBlank(text) == \A i \in 1..Len(text) : SubSeq(text, i, i) \in {" ", "\t", "\n"}

DigitCount(text) == Cardinality({i \in 1..Len(text) : SubSeq(text, i, i) \in Digits})

\* not body.get(field) or not str(body.get(field)).strip()
IsEmptyField(value) ==
    \/ value.type \in {"absent", "null"}
    \/ value.type = "str" /\ value.text = ""
    \/ value.type = "int" /\ value.text = "0"
    \/ IsBlank(value.text)

\* lines 18-46: (is_valid, error_message), or the TypeError of `in` and of
\* filter() on a value that is not a string
validate_form_data(body) ==
    LET empty == {i \in 1..Len(required_fields) : IsEmptyField(body[required_fields[i]])}
        first == CHOOSE i \in empty : \A j \in empty : i <= j
    IN  CASE empty # {} ->
               [raised |-> None, is_valid |-> FALSE,
                error_message |-> "Missing required field: " \o required_fields[first]]
          [] empty = {} /\ body.email.type # "str" ->
               [raised |-> "TypeError", is_valid |-> FALSE, error_message |-> None]
          [] empty = {} /\ body.email.type = "str"
                /\ (~HasChar(body.email.text, "@") \/ ~HasChar(body.email.text, ".")) ->
               [raised |-> None, is_valid |-> FALSE, error_message |-> "Invalid email address"]
          [] empty = {} /\ body.email.type = "str"
                /\ HasChar(body.email.text, "@") /\ HasChar(body.email.text, ".")
                /\ body.cellPhone.type # "str" ->
               [raised |-> "TypeError", is_valid |-> FALSE, error_message |-> None]
          [] empty = {} /\ body.email.type = "str"
                /\ HasChar(body.email.text, "@") /\ HasChar(body.email.text, ".")
                /\ body.cellPhone.type = "str"
                /\ DigitCount(body.cellPhone.text) < MinPhoneDigits ->
               [raised |-> None, is_valid |-> FALSE,
                error_message |-> "Invalid phone number - must be at least 10 digits"]
          [] OTHER -> [raised |-> None, is_valid |-> TRUE, error_message |-> None]

\* the lead fields with no LeadSource and the status 'Open'
lead_data_NoSource(form_data) ==
    [FirstName |-> form_data.firstName,
     LastName |-> form_data.lastName,
     Email |-> form_data.email,
     Phone |-> form_data.cellPhone,
     Description |-> "Headquarters: " \o form_data.headquarters.text
                     \o "\nProgram Type: " \o form_data.programType.text
                     \o (IF IsEmptyField(form_data.homePhone) THEN ""
                         ELSE "\nHome Phone: " \o form_data.homePhone.text),
     Company |-> "Not Provided",
     LeadSource |-> None,
     Status |-> "Open"]

\* lines 75-88
lead_data(form_data) ==
    [FirstName |-> form_data.firstName,
     LastName |-> form_data.lastName,
     Email |-> form_data.email,
     Phone |-> form_data.cellPhone,
     Description |-> "Headquarters: " \o form_data.headquarters.text
                     \o "\nProgram Type: " \o form_data.programType.text
                     \o (IF IsEmptyField(form_data.homePhone) THEN ""
                         ELSE "\nHome Phone: " \o form_data.homePhone.text),
     Company |-> "Not Provided",
     LeadSource |-> "Web Form - Admissions",
     Status |-> "New"]

NewLeadId == "00Q000000000001"

\* lines 49-102: the result dict and the leads Salesforce created, or the
\* exception re-raised
create_salesforce_lead(form_data, answer) ==
    IF answer = "created"
    THEN [raised |-> None, val |-> [leadId |-> NewLeadId, success |-> TRUE],
          created |-> <<[Id |-> NewLeadId] @@ lead_data(form_data)>>]
    ELSE [raised |-> answer, val |-> None, created |-> <<>>]

\* the headers of lines 126-131, 144-149 and 163-168
FullHeaders ==
    {"Content-Type", "Access-Control-Allow-Origin", "Access-Control-Allow-Headers",
     "Access-Control-Allow-Methods"}

\* the headers of lines 179-182 and 193-196
ShortHeaders == {"Content-Type", "Access-Control-Allow-Origin"}

Response(statusCode, headers, success, message, leadId) ==
    [statusCode |-> statusCode, headers |-> headers,
     body |-> [success |-> success, message |-> message, leadId |-> leadId]]

PhraseSubmitted ==
    "Your inquiry has been submitted successfully. Please check your email for confirmation."

PhraseSalesforceError ==
    "We encountered an error processing your request. Please try again in a moment."

\* the 500 response that tells the error of Salesforce
SalesforceErrorResponse_LeakError(sf_error) ==
    Response(500, FullHeaders, FALSE, "Salesforce error: " \o sf_error, None)

\* lines 157-173
SalesforceErrorResponse(sf_error) ==
    Response(500, FullHeaders, FALSE, PhraseSalesforceError, None)

\* lines 175-187
InvalidJsonResponse == Response(400, ShortHeaders, FALSE, "Invalid request format", None)

\* lines 189-201
UnexpectedErrorResponse ==
    Response(500, ShortHeaders, FALSE, "An unexpected error occurred. Please try again.", None)

\* lines 105-201: the response and the leads Salesforce created
form_submission_lambda_handler(event, answer) ==
    LET kind == event.body.kind
        body == event.body.fields
        v == validate_form_data(body)
        r == create_salesforce_lead(body, answer)
    IN  CASE kind = "text" -> [response |-> InvalidJsonResponse, created |-> <<>>]
          [] kind \in {"null", "array"} ->
               \* TypeError of json.loads(None), AttributeError of body.items()
               [response |-> UnexpectedErrorResponse, created |-> <<>>]
          [] kind \in {"object", "absent"} /\ v.raised # None ->
               [response |-> UnexpectedErrorResponse, created |-> <<>>]
          [] kind \in {"object", "absent"} /\ v.raised = None /\ ~v.is_valid ->
               [response |-> Response(400, FullHeaders, FALSE, v.error_message, None),
                created |-> <<>>]
          [] OTHER ->
               IF r.raised = None
               THEN [response |-> Response(200, FullHeaders, TRUE, PhraseSubmitted,
                                           r.val.leadId),
                     created |-> r.created]
               ELSE [response |-> SalesforceErrorResponse(r.raised), created |-> r.created]

FormInit ==
    /\ HelperInit
    /\ memoryEvents = <<>>
    /\ arg \in [event : FormEvents, answer : SalesforceAnswers]

\* one form is posted
SubmitForm ==
    /\ result = NoResult
    /\ result' = <<form_submission_lambda_handler(arg.event, arg.answer)>>
    /\ UNCHANGED <<handoff_context, memoryEvents, leads, tasks, queue, pc, loc, calls, raw,
                   outcome, before, invocations, arg, aside>>

FormNext == SubmitForm

SpecForm == FormInit /\ [][FormNext]_vars

\* ------------------------------------------------------------- properties

\* the order of the collaborator calls in the code
SagaOrder == <<"fetch_conversation_history", "search_lead_by_phone", "update_lead_status",
               "create_task_with_full_history", "send_whatsapp_message">>

Called(name) == \E i \in 1..Len(calls) : calls[i] = name

\* an invocation has started and the state is the one after its latest step
Running == pc # "idle"

\* the terminal state of the saga an outcome dict stands for
TerminalState(o) ==
    CASE o.status = "success" /\ o.text.phrase = PhraseDone -> "DONE"
      [] o.status = "error" /\ o.text.phrase = PhraseNoContext -> "ABORTED(NO_CONTEXT)"
      [] o.status = "error" /\ o.text.phrase = PhraseNoLead -> "ABORTED(NO_LEAD)"
      [] o.status = "error" /\ o.text.phrase = PhraseTaskFailed -> "ABORTED(FOLLOWUP_FAILED)"
      [] OTHER -> "OTHER"

\* the lead resolver was called and returned no lead
NoLeadFound == Called("search_lead_by_phone") /\ IsFalsy(loc.lead_id)

\* C1: when the lead resolver returns no lead, the invocation ends with the
\* not-found error dict carrying the raw phone number, and it neither
\* updates a status, nor creates a task, nor queues a message: the calls
\* stop after the lead search and the CRM and the queue are as it found them.
C1_NoLeadNoTask ==
    NoLeadFound =>
        /\ pc = "returned"
        /\ outcome = ErrorOutcome(PhraseNoLead, loc.phone_number)
        /\ TerminalState(outcome) = "ABORTED(NO_LEAD)"
        /\ calls = SubSeq(SagaOrder, 1, 2)
        /\ External = before

C1_Witness ==
    /\ NoLeadFound
    /\ raw = "results"
    /\ pc = "returned"
    /\ loc.phone_number = PhoneUnknown

\* the follow-up creator was called and returned no id
TaskCreationFailed == Called("create_task_with_full_history") /\ IsFalsy(loc.task_id)

\* C2: when create_task_with_full_history returns no id, the invocation ends
\* with the task-trouble error dict and send_whatsapp_message is not called:
\* the queue holds what it held before the invocation.
C2_TaskFailureNoNotification ==
    TaskCreationFailed =>
        /\ pc = "returned"
        /\ outcome = ErrorOutcome(PhraseTaskFailed, <<>>)
        /\ TerminalState(outcome) = "ABORTED(FOLLOWUP_FAILED)"
        /\ ~Called("send_whatsapp_message")
        /\ queue = before.queue

C2_Witness ==
    /\ TaskCreationFailed
    /\ raw = "SalesforceError"
    /\ pc = "returned"
    /\ loc.lead_id = "LeadA"

\* the notification step ran and its enqueue failed, the task being created
NotificationFailed ==
    /\ pc = "returned"
    /\ Called("send_whatsapp_message")
    /\ ~IsFalsy(loc.task_id)
    /\ loc.whatsapp_result.status # "success"

\* C3: when the enqueue fails after the task was created, the outcome is
\* success and differs from the outcome the same invocation returns when the
\* message is enqueued (it flags the notification as unconfirmed).
C3_DegradedNotificationFlagged ==
    NotificationFailed =>
        /\ outcome.status = "success"
        /\ outcome # SuccessOutcome(loc.lead_id, loc.task_id, loc.timing_preference,
                                    loc.student_name, loc.reason, loc.status_updated,
                                    [status |-> "success", message_id |-> NextMessageId])

\* the status mutator was called and returned False
StatusUpdateFailed == Called("update_lead_status") /\ ~loc.status_updated

\* C4: when update_lead_status returns False (the CRM answered something
\* else than 204, or raised), the saga goes on to the task creation, and if
\* the task is created it calls the dispatcher and returns the success dict.
C4_StatusFailureContinues ==
    StatusUpdateFailed =>
        /\ pc \in {"create_task", "queue_whatsapp", "returned"}
        /\ pc = "returned" => Called("create_task_with_full_history")
        /\ (pc = "returned" /\ ~IsFalsy(loc.task_id)) =>
              /\ calls = SagaOrder
              /\ Len(tasks) = Len(before.tasks) + 1
              /\ outcome.status = "success"
              /\ TerminalState(outcome) = "DONE"

C4_Witness ==
    /\ StatusUpdateFailed
    /\ pc = "returned"
    /\ outcome.status = "success"
    /\ raw = "MessageId"
    /\ Len(queue) = Len(before.queue) + 1
    /\ Len(tasks) = Len(before.tasks) + 1

\* the context the invocation read lacks the phone number or the session id
ContextMissing == Running /\ (IsFalsyPhone(loc.phone_number) \/ IsFalsy(loc.session_id))

\* C5: with the phone number or the session id missing, the invocation
\* returns the generic contact-admissions error dict at once: no
\* collaborator is called and the CRM and the queue are untouched.
C5_MissingContextAborts ==
    ContextMissing =>
        /\ pc = "returned"
        /\ outcome = ErrorOutcome(PhraseNoContext, <<>>)
        /\ TerminalState(outcome) = "ABORTED(NO_CONTEXT)"
        /\ calls = <<>>
        /\ External = before

C5_Witness ==
    /\ ContextMissing
    /\ pc = "returned"
    /\ loc.phone_number = PhoneFormatted
    /\ loc.session_id = ""

\* the state right after a history fetch that the memory store failed
HistoryFetchFailed ==
    /\ calls = SubSeq(SagaOrder, 1, 1)
    /\ raw \in {"ClientError", "Exception"}

\* what the history reader returns when the store holds no event for the
\* session: the empty history
EmptyHistoryResult ==
    fetch_conversation_history("s1", PhoneUnknown, "m1", HandoffMaxTurns, "events")

\* C6: a failure of the history fetch does not end the invocation: the saga
\* is at the lead search, no outcome is set, and its locals are those of a
\* run whose fetch returned the empty history (conversation_history is the
\* empty string), so that every later step sees the same state.
C6_HistoryFailureDegrades ==
    HistoryFetchFailed =>
        /\ pc = "search_lead"
        /\ outcome = NoOutcome
        /\ loc.conversation_history = EmptyHistoryResult.val
        /\ loc.conversation_history = <<>>
        /\ External = before

C6_Witness ==
    /\ HistoryFetchFailed
    /\ raw = "ClientError"
    /\ pc = "search_lead"
    /\ <<loc.memory_id, loc.session_id, sanitize_phone_for_actor_id(loc.phone_number)>> = StoreKey
    /\ memoryEvents # <<>>

\* C7: a finished invocation has returned one outcome dict, which stands for
\* DONE, ABORTED(NO_CONTEXT), ABORTED(NO_LEAD) or ABORTED(FOLLOWUP_FAILED),
\* whatever the collaborators answered; the catch-all error is never
\* returned, and no outcome exists before the invocation returns.  Each
\* terminal state is reached after the calls of its stage.
C7_TerminalOutcomes ==
    /\ pc = "returned" =>
          /\ TerminalState(outcome) \in {"DONE", "ABORTED(NO_CONTEXT)", "ABORTED(NO_LEAD)",
                                         "ABORTED(FOLLOWUP_FAILED)"}
          /\ TerminalState(outcome) = "ABORTED(NO_CONTEXT)" <=> Len(calls) = 0
          /\ TerminalState(outcome) = "ABORTED(NO_LEAD)" <=> Len(calls) = 2
          /\ TerminalState(outcome) = "ABORTED(FOLLOWUP_FAILED)" <=> Len(calls) = 4
          /\ TerminalState(outcome) = "DONE" <=> Len(calls) = 5
    /\ pc # "returned" => outcome = NoOutcome

C7_Witness ==
    /\ pc = "returned"
    /\ TerminalState(outcome) = "DONE"
    /\ ~loc.status_updated
    /\ loc.whatsapp_result.status = "error"
    /\ raw = "ClientError"

IsPrefix(s, t) == Len(s) <= Len(t) /\ s = SubSeq(t, 1, Len(s))

\* position of the saga after n collaborator calls that did not end it
PcAfter(n) ==
    CASE n = 0 -> "fetch_history"
      [] n = 1 -> "search_lead"
      [] n = 2 -> "update_status"
      [] n = 3 -> "create_task"
      [] n = 4 -> "queue_whatsapp"
      [] OTHER -> "returned"

\* C8: the collaborator calls of an invocation are an initial part of the
\* order history fetch, lead search, status update, task creation,
\* notification, one call per step; the status update and the task creation
\* are called only with the lead id the lead search of this invocation
\* returned, and the task created is linked to that lead.
C8_StrictOrder ==
    Running =>
        /\ IsPrefix(calls, SagaOrder)
        /\ pc \in {PcAfter(Len(calls)), "returned"}
        /\ (Called("update_lead_status") \/ Called("create_task_with_full_history")) =>
              /\ Called("search_lead_by_phone")
              /\ loc.lead_id \in LeadIds
        /\ Len(tasks) > Len(before.tasks) =>
              /\ Called("create_task_with_full_history")
              /\ tasks[Len(tasks)].WhoId = loc.lead_id

C8_Witness ==
    /\ pc = "returned"
    /\ calls = SagaOrder
    /\ Len(tasks) = Len(before.tasks) + 1
    /\ tasks[Len(tasks)].WhoId = "LeadB"

\* the state right after a lead search that the CRM failed
LeadSearchFailed ==
    /\ calls = SubSeq(SagaOrder, 1, 2)
    /\ raw \in {"SalesforceAuthenticationFailed", "ConnectionError"}

\* C9: an authentication or network failure of the CRM during the lead
\* search is not reported as 'no lead found': the invocation does not return
\* the not-found error dict.
C9_CrmFailureNotNoLead ==
    LeadSearchFailed =>
        /\ TerminalState(outcome) # "ABORTED(NO_LEAD)"
        /\ outcome.text.phrase # PhraseNoLead

\* the state right after a history fetch the store answered with an error
\* other than 'not found'
HistoryStoreError ==
    /\ calls = SubSeq(SagaOrder, 1, 1)
    /\ raw \in {"ClientError", "Exception"}
    /\ pc = "search_lead"

\* C10: for a store error other than 'not found', the value the saga gets
\* from fetch_conversation_history differs from the value it gets when the
\* store reports 'not found' (no history exists).
C10_StoreErrorDistinct ==
    HistoryStoreError =>
        loc.conversation_history #
            fetch_conversation_history(loc.session_id, loc.phone_number, loc.memory_id,
                                       HandoffMaxTurns, "ResourceNotFoundException").val

\* the invocation returned the success dict
Done == pc = "returned" /\ TerminalState(outcome) = "DONE"

\* C11: the confirmation text of a DONE outcome tells the student that the
\* application status is now Working only if update_lead_status returned
\* True in this invocation, and that a WhatsApp confirmation will arrive
\* only if send_whatsapp_message queued the message in this invocation.
C11_ConfirmationTruthful ==
    Done =>
        /\ "status working" \in outcome.text.statements => loc.status_updated
        /\ "whatsapp confirmation" \in outcome.text.statements =>
              loc.whatsapp_result.status = "success"

\* the invocation returned an error dict
Aborted == pc = "returned" /\ outcome.status = "error"

\* the fixed phrase of the abort after n collaborator calls
AbortPhrase(n) ==
    CASE n = 0 -> PhraseNoContext
      [] n = 2 -> PhraseNoLead
      [] n = 4 -> PhraseTaskFailed
      [] OTHER -> PhraseCatchAll

\* names of the exceptions and error answers of the collaborators
ErrorDetails ==
    {"ClientError", "Exception", "ResourceNotFoundException", "SalesforceAuthenticationFailed",
     "ConnectionError", "SalesforceError", "KeyError", "not_success", "200"}

\* C12: the text of an error dict is the fixed phrase of the stage the
\* invocation stopped at, with the raw phone number in the not-found case
\* and nothing else: it is the same whatever the collaborators answered
\* (raw), and no part of it is an exception name or an error answer.
C12_FixedAbortText ==
    Aborted =>
        /\ outcome.text =
              ErrorOutcome(AbortPhrase(Len(calls)),
                           IF Len(calls) = 2 THEN loc.phone_number ELSE <<>>).text
        /\ outcome.text.phrase \notin ErrorDetails
        /\ outcome.text.reason \notin ErrorDetails
        /\ outcome.text.statements = {}

C12_Witness ==
    /\ Aborted
    /\ Len(calls) = 2
    /\ raw = "ConnectionError"
    /\ loc.phone_number = PhonePlain

EndsWith(s, suffix) ==
    Len(s) >= Len(suffix) /\ SubSeq(s, Len(s) - Len(suffix) + 1, Len(s)) = suffix

\* the call of create_task_with_full_history created a task
TaskStored == result # NoResult /\ ~IsFalsy(result[1].val)

\* the Description of the task the call created
StoredDescription == tasks[Len(tasks)].Description

\* the text the call combined from its arguments, before any cut
CombinedText == CombinedDescription(arg.task_description, arg.conversation_history)

\* the combined text is longer than the cut length
OverLength == TaskStored /\ Len(CombinedText) > MaxDescriptionLength

\* C13 (as stated): when the combined text of task description and
\* transcript exceeds 30,000 characters, the stored Description is at most
\* 30,000 characters long and ends with the truncation marker.
C13_StoredAtMostCap ==
    OverLength =>
        /\ Len(StoredDescription) <= MaxDescriptionLength
        /\ EndsWith(StoredDescription, TruncationMarker)

\* C13 (amended): when the combined text exceeds 30,000 characters, the
\* stored Description is exactly 30,024 characters long, the first 30,000
\* characters of the combined text followed by the 24-character truncation
\* marker, and so ends with the marker.
C13_StoredCapPlusMarker ==
    OverLength =>
        /\ Len(TruncationMarker) = 24
        /\ Len(StoredDescription) = MaxDescriptionLength + 24
        /\ EndsWith(StoredDescription, TruncationMarker)

C13_Witness ==
    /\ OverLength
    /\ Len(arg.task_description) = 500
    /\ arg.conversation_history # <<>>
    /\ Len(HistoryText(arg.conversation_history)) > MaxDescriptionLength
    /\ Len(StoredDescription) > MaxDescriptionLength

\* C14: the call never raises, whatever the lengths; when the combined text
\* is longer than the cut length the stored Description starts with the
\* first 30,000 characters of the combined text (task description, blank
\* line, transcript header, transcript); otherwise the stored Description
\* is the combined text, without a marker.
C14_HeadPreserved ==
    /\ result # NoResult => ~result[1].exc
    /\ OverLength =>
          SubSeq(StoredDescription, 1, MaxDescriptionLength) =
              SubSeq(CombinedText, 1, MaxDescriptionLength)
    /\ (TaskStored /\ ~OverLength) =>
          /\ StoredDescription = CombinedText
          /\ ~EndsWith(StoredDescription, TruncationMarker)

C14_Witness ==
    /\ OverLength
    /\ arg.conversation_history # <<>>
    /\ Len(CombinedText) = MaxDescriptionLength + 1
    /\ SubSeq(StoredDescription, 1, 500) = arg.task_description

\* C15: sanitize_phone_for_actor_id applied to its own result returns that
\* result, and its result starts with '+' exactly when its argument does
\* (also on the second application).
C15_SanitizeIdempotent ==
    /\ Len(result) >= 1 => (StartsWithPlus(result[1]) <=> StartsWithPlus(arg))
    /\ Len(result) = 2 =>
          /\ result[2] = result[1]
          /\ StartsWithPlus(result[2]) <=> StartsWithPlus(arg)

C15_Witness ==
    /\ Len(result) = 2
    /\ arg = <<"+", "1", "-", "7">>
    /\ result[1] = <<"+", "1", "7">>
    /\ result[1] # arg

\* the decimal digits of a string, in their order
RECURSIVE DigitsOf(_)
DigitsOf(s) ==
    IF s = <<>> THEN <<>>
    ELSE (IF Head(s) \in Digits THEN <<Head(s)>> ELSE <<>>) \o DigitsOf(Tail(s))

\* C16: the result of sanitize_phone_for_actor_id has the digits of the
\* argument in their order, holds nothing but digits except for a '+' in
\* first place, which is there exactly when the argument starts with '+';
\* the call returns for every argument, and the empty string gives the
\* empty string.
C16_SanitizeDigits ==
    Len(result) >= 1 =>
        LET id == result[1]
        IN  /\ DigitsOf(id) = DigitsOf(arg)
            /\ \A i \in 1..Len(id) : id[i] \in Digits \/ (i = 1 /\ id[i] = "+")
            /\ (Len(id) > 0 /\ id[1] = "+") <=> (Len(arg) > 0 /\ arg[1] = "+")
            /\ Len(id) = Len(DigitsOf(arg)) + (IF StartsWithPlus(arg) THEN 1 ELSE 0)
            /\ arg = <<>> => id = <<>>

C16_Witness ==
    /\ Len(result) >= 1
    /\ arg = <<"7", "+", "a", "1">>
    /\ result[1] = <<"7", "1">>

\* the lead search ran on a phone number with fewer digits than that
ShortPhoneSearched ==
    /\ Called("search_lead_by_phone")
    /\ Len(DigitsOf(sanitize_phone_for_actor_id(loc.phone_number))) < MinPhoneDigits

\* C17: for a phone number with fewer than the minimum number of digits,
\* search_lead_by_phone returns no lead, and the invocation changes no lead
\* and creates no task.
C17_ShortPhoneNoLead ==
    ShortPhoneSearched =>
        /\ IsFalsy(loc.lead_id)
        /\ leads = before.leads
        /\ tasks = before.tasks

\* fetch_conversation_history returned a non-empty history
HistoryReturned == result # NoResult /\ ~result[1].exc /\ result[1].val # <<>>

\* the lines of the returned history after its first line
TurnLinesReturned == Tail(result[1].val)

\* place in the session of the event a returned line was made from
PositionOf(line) == CHOOSE i \in 1..Len(memoryEvents) : EventText(i) = line.text

EventsReturned ==
    IF raw = "events" /\ arg.session_id = "s1"
    THEN SubSeq(memoryEvents, 1, Min(Len(memoryEvents), 2 * arg.max_turns))
    ELSE <<>>

\* C19: fetch_conversation_history never raises; it returns the empty
\* string when the store returns no event or reports 'not found'; a
\* non-empty result is the header line followed by one line for each user
\* or assistant event the store returned, in the store's order, the other
\* events left out, and it holds at least one turn line.
C19_HistoryRendering ==
    result # NoResult =>
        /\ ~result[1].exc
        /\ (EventsReturned = <<>> \/ raw = "ResourceNotFoundException") => result[1].val = <<>>
        /\ result[1].val # <<>> =>
              /\ result[1].val[1] = HeaderLine
              /\ Len(TurnLinesReturned) = Cardinality({k \in 1..Len(EventsReturned) :
                                                          IsTurn(EventsReturned[k])})
              /\ \A i \in 1..Len(TurnLinesReturned) :
                    TurnLinesReturned[i] = TurnLine(memoryEvents[PositionOf(TurnLinesReturned[i])])
              /\ Len(TurnLinesReturned) >= 1

\* send_whatsapp_message was called with a phone number of at least 10
\* characters, the '+' counted, and the queue was ready to take the message
QueueReady ==
    /\ result # NoResult
    /\ raw = "MessageId"
    /\ Len(arg.phone_number) + (IF StartsWithPlus(arg.phone_number) THEN 0 ELSE 1) >= 10

\* C20: whatever the timing preference string, a call the queue answers is
\* a success with one message queued, and the DelaySeconds of a queued
\* message is within 0..900: 0 for 'as soon as possible', 900 for
\* '2 hours', '4 hours' and 'tomorrow morning', and 0 or 900 for any other
\* string.
C20_DelayFromTable ==
    /\ result # NoResult => ~result[1].exc
    /\ QueueReady =>
          /\ result[1].val.status = "success"
          /\ Len(queue) = 1
    /\ \A i \in 1..Len(queue) :
          /\ queue[i].DelaySeconds \in 0..900
          /\ queue[i].DelaySeconds \in {0, 900}
          /\ arg.timing_preference = "as soon as possible" => queue[i].DelaySeconds = 0
          /\ arg.timing_preference \in {"2 hours", "4 hours", "tomorrow morning"} =>
                queue[i].DelaySeconds = 900

C20_Witness ==
    /\ QueueReady
    /\ arg.timing_preference = "tomorrow morning"
    /\ Len(queue) = 1
    /\ queue[1].DelaySeconds = 900

\* number of times the invocation called a collaborator
TimesCalled(name) == Cardinality({i \in 1..Len(calls) : calls[i] = name})

\* C21: within one invocation each collaborator (history fetch, lead search,
\* status update, task creation, queue send) is called at most once, also
\* after it failed, and the invocation adds at most one task and one
\* message.
C21_NoRetry ==
    /\ \A i \in 1..Len(SagaOrder) : TimesCalled(SagaOrder[i]) <= 1
    /\ Len(calls) <= Len(SagaOrder)
    /\ Len(tasks) <= Len(before.tasks) + 1
    /\ Len(queue) <= Len(before.queue) + 1

C21_Witness ==
    /\ pc = "returned"
    /\ raw = "not_success"
    /\ HistoryText(loc.conversation_history) # ""
    /\ ~loc.status_updated
    /\ TimesCalled("create_task_with_full_history") = 1
    /\ TimesCalled("update_lead_status") = 1

\* C22: when the tool is invoked n times for the same phone number and
\* session, the lead being found and the task created each time, n tasks
\* exist for the lead after the n-th invocation returned, each with an Id
\* of its own: an earlier task of the lead does not stop the creation.
C22_OneTaskPerInvocation ==
    pc = "returned" =>
        /\ Len(tasks) = invocations
        /\ \A i \in 1..Len(tasks) : tasks[i].WhoId = "LeadA"
        /\ \A i, j \in 1..Len(tasks) : i # j => tasks[i].Id # tasks[j].Id
        /\ loc.task_id = tasks[Len(tasks)].Id

C22_Witness ==
    /\ pc = "returned"
    /\ invocations = 2
    /\ Len(tasks) = 2
    /\ tasks[1].WhoId = tasks[2].WhoId
    /\ tasks[1].Description = tasks[2].Description

\* the task the invocation created, as the CRM stored it at creation
TaskAsCreated ==
    [Id |-> loc.task_id] @@
    TaskData(loc.lead_id, loc.student_name, TaskDescription(loc.reason, loc.timing_preference),
             loc.conversation_history)

\* C23: whatever fails later in the invocation, the effects of the steps
\* already done stay: once update_lead_status returned True the lead has
\* the status 'Working - Connected', once the task is created it is the
\* last task of the CRM, as it was created, and no task that existed before
\* the invocation is removed or changed.
C23_ForwardOnly ==
    Running =>
        /\ loc.status_updated => leads[loc.lead_id].Status = "Working - Connected"
        /\ ~IsFalsy(loc.task_id) => tasks = Append(before.tasks, TaskAsCreated)
        /\ IsPrefix(before.tasks, tasks)

C23_Witness ==
    /\ TaskCreationFailed
    /\ pc = "returned"
    /\ loc.status_updated
    /\ leads[loc.lead_id].Status = "Working - Connected"
    /\ before.leads[loc.lead_id].Status = "New"

\* the lead that carries the phone number of a request
LeadOf(req) == IF req = "A" THEN "LeadA" ELSE "LeadB"

\* C24: with two requests for different phone numbers and sessions in
\* flight in one process, the tool call made by the agent of one request
\* works on the phone number, session id and memory id of that request,
\* and the lead it finds, updates and creates a task for is the lead of
\* that request's phone number, however the set_context calls and the
\* tool call interleave.
C24_OwnContextOnly ==
    (requests.running # None /\ pc # "idle") =>
        /\ loc.phone_number = Payload(requests.running).phone_number
        /\ loc.session_id = Payload(requests.running).session_id
        /\ loc.memory_id = Payload(requests.running).memory_id
        /\ loc.lead_id \in LeadIds => loc.lead_id = LeadOf(requests.running)
        /\ Len(tasks) > Len(before.tasks) =>
              tasks[Len(tasks)].WhoId = LeadOf(requests.running)

\* the keys of the session records that a turn created
Tracked == {k \in DOMAIN sessions : sessions[k].status = "active"}

\* C25: once a turn has created the session record of a (phone number,
\* session id), no later step removes it or changes any attribute of it but
\* last_activity: start_time, student_name and memory_id stay as first
\* written and status stays 'active'.
C25_OnlyLastActivityMutated ==
    [][\A k \in Tracked :
          /\ k \in DOMAIN sessions'
          /\ sessions'[k] = [sessions[k] EXCEPT !.last_activity = sessions'[k].last_activity]]_vars

\* the invocation runs for a request that has a phone number and a session
\* id but no memory id
MemoryIdMissing ==
    /\ invocations > 0
    /\ ~IsFalsyPhone(loc.phone_number)
    /\ ~IsFalsy(loc.session_id)
    /\ IsFalsy(loc.memory_id)

\* C26: an invocation whose request has a phone number and a session id but
\* no memory id returns an error dict with a fixed phrase: not a success
\* confirmation, and no exception name or error answer in the text.
C26_MissingHandleAdvisory ==
    (pc = "returned" /\ MemoryIdMissing) =>
        /\ outcome.status = "error"
        /\ outcome.text.statements = {}
        /\ outcome.text.phrase \notin ErrorDetails
        /\ outcome.text.reason \notin ErrorDetails

\* C27: once the deadline of the caller has elapsed while the tool runs, the
\* next step of the tool calls no collaborator and returns, with an outcome
\* that carries the lead and task of the steps completed.
C27_StopsAtDeadline ==
    [][(deadline_elapsed /\ ~Idle) =>
          /\ calls' = calls
          /\ pc' = "returned"
          /\ outcome'.handoff_data.lead_id = loc.lead_id
          /\ outcome'.handoff_data.task_id = loc.task_id]_vars

\* the leads whose phone number contains the digits of the request's one
LeadsOfRequest ==
    {id \in LeadIds :
        Like(before.leads[id].Phone,
             Without(sanitize_phone_for_actor_id(loc.phone_number), {"+", "-", " "}))}

\* C28: the success dict of an invocation carries the id of the lead that
\* the search returned for the request's phone number and the id of the
\* one task the invocation created, and that task has this lead as WhoId,
\* Priority 'High' and Type 'Advisor Handoff'.
C28_OutcomeCarriesIds ==
    Done =>
        /\ Len(tasks) = Len(before.tasks) + 1
        /\ outcome.handoff_data.lead_id \in LeadsOfRequest
        /\ outcome.handoff_data.lead_id = loc.lead_id
        /\ outcome.handoff_data.task_id = tasks[Len(tasks)].Id
        /\ outcome.text.task_id = tasks[Len(tasks)].Id
        /\ tasks[Len(tasks)].WhoId = outcome.handoff_data.lead_id
        /\ tasks[Len(tasks)].Priority = "High"
        /\ tasks[Len(tasks)].Type = "Advisor Handoff"

C28_Witness ==
    /\ Done
    /\ loc.phone_number = PhoneFormatted
    /\ outcome.handoff_data.lead_id = "LeadA"
    /\ tasks # <<>>
    /\ outcome.handoff_data.task_id = tasks[Len(tasks)].Id
    /\ tasks[Len(tasks)].WhoId = "LeadA"

\* C29: the phone number in the body of the message that an invocation
\* queued is the sanitized phone number of the request, the key of the
\* history fetch, for every format of the raw phone number.
C29_QueuedIdentityNormalized ==
    (Running /\ loc.whatsapp_result.status = "success") =>
        /\ queue # <<>>
        /\ queue[Len(queue)].MessageBody.phone_number =
              sanitize_phone_for_actor_id(loc.phone_number)

\* the queue record is well formed: a JSON object with the three required
\* keys
WellFormed(message) ==
    /\ message.body.json
    /\ None \notin {message.body.phone_number, message.body.message, message.body.eum_msg_id}

\* process_sqs_message ran on a well-formed record and Twilio refused it
TwilioFailed ==
    /\ result # NoResult
    /\ WellFormed(arg.message)
    /\ arg.twilio_answer # "queued"

\* C30: when Twilio fails on a well-formed queue record,
\* process_sqs_message raises the error of Twilio and does not return,
\* after exactly one put_item call whose Item has the message's eum_msg_id
\* and status 'failed'; the table holds that one record when DynamoDB took
\* the write, and Twilio accepted no message.
C30_FailureLoggedAndRaised ==
    TwilioFailed =>
        /\ result[1].raised = arg.twilio_answer
        /\ result[1].val = None
        /\ Len(result[1].put_item) = 1
        /\ result[1].put_item[1].status = "failed"
        /\ result[1].put_item[1].eum_msg_id = arg.message.body.eum_msg_id
        /\ result[1].put_item[1].error_message = arg.twilio_answer
        /\ arg.table_answer = "ok" => tracking = result[1].put_item
        /\ twilio_sent = <<>>

C30_Witness ==
    /\ TwilioFailed
    /\ arg.table_answer = "ok"
    /\ Len(tracking) = 1
    /\ tracking[1].status = "failed"
    /\ result[1].raised = "TwilioRestException"

\* process_sqs_message ran on a record whose body is not JSON
InvalidJsonProcessed ==
    /\ result # NoResult
    /\ ~arg.message.body.json

\* C32: for a queue record whose body is not JSON, process_sqs_message
\* returns False, raises nothing and makes no Twilio call: no message is
\* sent, whatever Twilio and DynamoDB would have answered.
C32_InvalidJsonReturnsFalse ==
    InvalidJsonProcessed =>
        /\ result[1].raised = None
        /\ result[1].val = FALSE
        /\ twilio_sent = <<>>

C32_Witness ==
    /\ InvalidJsonProcessed
    /\ arg.twilio_answer = "queued"
    /\ result[1].val = FALSE
    /\ twilio_sent = <<>>

\* the loop of the running lambda_handler call is over: it raised or
\* returned after its set-up had succeeded
LoopOver ==
    \/ handler.pc = "returned"
    \/ handler.pc = "raised" /\ handler.attempts # <<>>

\* C31: a lambda_handler call whose set-up succeeded attempts every record
\* of the batch, in order, also after a record failed; its two counters add
\* up to the number of records; it raises exactly when a record failed, and
\* when it returns, the response is 200 with processed = the number of
\* records and failed = 0.
C31_BatchAccounting ==
    /\ handler.pc \in {"loop", "returned"} \/ LoopOver =>
          /\ handler.successful + handler.failed = Len(handler.attempts)
          /\ handler.successful =
                Cardinality({i \in 1..Len(handler.attempts) : handler.attempts[i].success})
          /\ \A i \in 1..Len(handler.attempts) :
                handler.attempts[i].messageId = arg.Records[i].messageId
    /\ LoopOver =>
          /\ Len(handler.attempts) = Len(arg.Records)
          /\ handler.successful + handler.failed = Len(arg.Records)
          /\ handler.pc = "raised" <=> handler.failed > 0
          /\ handler.pc = "returned" =>
                /\ result = <<[statusCode |-> 200,
                               body |-> [processed |-> Len(arg.Records), failed |-> 0]]>>
                /\ \A i \in 1..Len(handler.attempts) : handler.attempts[i].success

C31_Witness ==
    /\ handler.pc = "raised"
    /\ Len(arg.Records) = 2
    /\ Len(handler.attempts) = 2
    /\ ~handler.attempts[1].success
    /\ handler.attempts[2].success
    /\ handler.successful = 1
    /\ handler.failed = 1

\* number of messages Twilio accepted for the phone number of a record
TimesSent(record) ==
    Cardinality({j \in 1..Len(twilio_sent) : twilio_sent[j].to = record.body.phone_number})

\* number of times, over all deliveries, that the handler counted a record
\* as successful
TimesSuccessful(record) ==
    Cardinality({k \in 1..Len(handler.log) :
                    /\ handler.log[k].messageId = record.messageId
                    /\ handler.log[k].success})

\* C37: delivery is at least once, not at most once: every time a
\* delivery of the batch processes a record successfully, Twilio has been
\* sent the message once more, whether or not an earlier delivery had sent
\* it already; a batch that a redelivery completes has every record sent in
\* that delivery again.
C37_ResentOnRedelivery ==
    /\ \A i \in 1..Len(arg.Records) :
          arg.Records[i].body.json =>
              TimesSent(arg.Records[i]) = TimesSuccessful(arg.Records[i])
    /\ handler.pc = "returned" =>
          \A i \in 1..Len(arg.Records) :
              /\ arg.Records[i].body.json
              /\ TimesSent(arg.Records[i]) >= 1

\* the first delivery sent record 1 and failed on record 2, the batch was
\* delivered again and record 1 was sent a second time
C37_Witness ==
    /\ handler.deliveries = 2
    /\ Len(arg.Records) = 2
    /\ Len(handler.log) >= 3
    /\ handler.log[1] = [messageId |-> "msg-1", success |-> TRUE]
    /\ handler.log[2] = [messageId |-> "msg-2", success |-> FALSE]
    /\ handler.log[3] = [messageId |-> "msg-1", success |-> TRUE]
    /\ TimesSent(arg.Records[1]) = 2

\* C38: for every timing preference string, a queued message has Priority
\* 'high' exactly when its DelaySeconds is 0, and a message queued with the
\* delay 900 has Priority 'normal'.
C38_HighIffImmediate ==
    \A i \in 1..Len(queue) :
        /\ queue[i].Priority = "high" <=> queue[i].DelaySeconds = 0
        /\ queue[i].DelaySeconds = SqsMaxDelay => queue[i].Priority = "normal"

\* the posted body is not JSON, or it is a form with a required field
\* missing, empty or blank, an email without '@' or without '.', or a
\* cellPhone with fewer than 10 digits
FormInvalid ==
    LET form == arg.event.body.fields
    IN  \/ arg.event.body.kind \in {"text", "null"}
        \/ /\ arg.event.body.kind \in {"object", "absent"}
           /\ \/ \E i \in 1..Len(required_fields) :
                    \/ form[required_fields[i]].type \in {"absent", "null"}
                    \/ IsBlank(form[required_fields[i]].text)
              \/ ~HasChar(form.email.text, "@")
              \/ ~HasChar(form.email.text, ".")
              \/ DigitCount(form.cellPhone.text) < MinPhoneDigits

\* C33: a submission whose body is not JSON or whose form fails the
\* validation gets a 400 response with success false, and no lead is
\* created for it.
C33_InvalidFormRejected ==
    (result # NoResult /\ FormInvalid) =>
        /\ result[1].response.statusCode = 400
        /\ result[1].response.body.success = FALSE
        /\ result[1].created = <<>>

\* the posted body is a form that passes the validation
FormValid ==
    /\ arg.event.body.kind = "object"
    /\ ~FormInvalid
    /\ arg.event.body.fields.email.type = "str"
    /\ arg.event.body.fields.cellPhone.type = "str"

\* C34: when the connection to Salesforce or the creation of the lead
\* fails for a valid form, the response is 500 with success false and the
\* one fixed message, whatever the error was, and the name of the error is
\* no part of the message; no lead is created.
C34_SalesforceErrorHidden ==
    (result # NoResult /\ FormValid /\ arg.answer # "created") =>
        /\ result[1].response.statusCode = 500
        /\ result[1].response.body.success = FALSE
        /\ result[1].response.body.message = PhraseSalesforceError
        /\ ~Like(result[1].response.body.message, arg.answer)
        /\ result[1].response.body.leadId = None
        /\ result[1].created = <<>>

C34_Witness ==
    /\ result # NoResult
    /\ FormValid
    /\ arg.answer = "SalesforceAuthenticationFailed"
    /\ result[1].response.statusCode = 500
    /\ result[1].response.body.message = PhraseSalesforceError

\* C35: every response of the handler has the three CORS headers
\* Access-Control-Allow-Origin, Access-Control-Allow-Headers and
\* Access-Control-Allow-Methods.
C35_CorsHeadersOnEveryPath ==
    result # NoResult =>
        {"Access-Control-Allow-Origin", "Access-Control-Allow-Headers",
         "Access-Control-Allow-Methods"} \subseteq result[1].response.headers

\* C36: for a valid form with Salesforce answering, exactly one lead is
\* created, with LeadSource 'Web Form - Admissions', Status 'New' and the
\* first name, last name, email and cell phone of the form as posted, and
\* the response is 200 with success true and the id of that lead.
C36_ValidFormCreatesLead ==
    (result # NoResult /\ FormValid /\ arg.answer = "created") =>
        /\ Len(result[1].created) = 1
        /\ result[1].created[1].LeadSource = "Web Form - Admissions"
        /\ result[1].created[1].Status = "New"
        /\ result[1].created[1].FirstName = arg.event.body.fields.firstName
        /\ result[1].created[1].LastName = arg.event.body.fields.lastName
        /\ result[1].created[1].Email = arg.event.body.fields.email
        /\ result[1].created[1].Phone = arg.event.body.fields.cellPhone
        /\ result[1].response.statusCode = 200
        /\ result[1].response.body.success = TRUE
        /\ result[1].response.body.leadId = result[1].created[1].Id

C36_Witness ==
    /\ result # NoResult
    /\ FormValid
    /\ arg.answer = "created"
    /\ arg.event.body.fields.cellPhone = Str("+1 (555) 123-4567")
    /\ Len(result[1].created) = 1
    /\ result[1].created[1].Phone = Str("+1 (555) 123-4567")
    /\ result[1].response.statusCode = 200

====
